---- MODULE Spec2Model ----
(***************************************************************************)
(* Step-by-step generation workflow of the ArticleGenerator component      *)
(* (src/app/components/ArticleGenerator.tsx): heading generation, single   *)
(* section generation, bulk generation, navigation between the three       *)
(* generation steps, and the assembled article.                            *)
(*                                                                         *)
(* Execution model: one UI thread.  A handler runs without interruption    *)
(* up to its next await; each await is a separate step of the model (the   *)
(* response of the remote API, or the expiry of the 500ms timer).  React   *)
(* commits a state update, re-renders and runs the two ref-syncing         *)
(* effects (lines 90-96) before the next event is handled, so the refs     *)
(* h2ContentsRef and headingsResponseRef hold the values of h2Contents     *)
(* and headingsResponse whenever a handler starts; they are read through   *)
(* the definitions h2ContentsRef and headingsResponseRef below.            *)
(* Sequences are 1-based here: section index i of the source is i+1.       *)
(***************************************************************************)
EXTENDS Integers, Sequences, FiniteSets, TLC

\* ------------------------------------------------------------------ bounds
MaxH2 == 2                      \* longest list of H2 headings a response carries

\* ------------------------------------------------------- values of the API
Undefined == "undefined"        \* the value of an absent optional field
Null == [isNull |-> TRUE]       \* the null of useState / useRef

\* H2 heading lists the remote API returns here: the first n headings of one
\* of two orders, so that two responses differ at every index
HeadingOrders == {<<"A", "B", "C", "D">>, <<"B", "C", "D", "A">>}
H2HeadingLists == {SubSeq(order, 1, n) : order \in HeadingOrders, n \in 0..MaxH2}

\* responses of articleAPI.generateHeadings
HeadingsResponses ==
    {[isNull |-> FALSE,
      seo_content |-> [h1_heading |-> "T", h2_headings |-> h2s,
                       meta_description |-> "meta"]]
       : h2s \in H2HeadingLists}

\* responses of articleAPI.generateH2Content
H2ContentResponses ==
    {[generated_content |-> "",    word_count |-> 0],
     [generated_content |-> "x y", word_count |-> 2]}

\* values a rejected API promise carries (axios rejects with an Error)
ApiErrors == {[isError |-> TRUE, message |-> "Network Error"]}

BulkFailureMessage == "Failed to generate all content. Please try again."

VARIABLES
    generationStep,           \* "setup" | "headings" | "content"
    headingsResponse,         \* Null or a HeadingsGenerationResponse
    h2Contents,               \* sequence of H2ContentData
    error,                    \* session-level error, "null" when absent
    isGeneratingHeadings,     \* state flag of generateHeadings
    isGeneratingAll,          \* state flag of generateAllH2Contents
    isGeneratingAllRef,       \* ref guard of generateAllH2Contents
    generationInProgressRef,  \* ref guard shared by both section operations
    headingsCall,             \* position of generateHeadings: "idle" | "awaiting"
    sectionCall,              \* generateH2Content: [pc, h2Index]
    bulkCall,                 \* generateAllH2Contents: [pc, i, locals]
    pendingRequests,          \* section-generation requests in flight
    bulkHistory,              \* history of the bulk run: [start, issued]
    lastEvent,                \* history: the last thing a handler did
    localStorage,             \* window.localStorage: key -> stored value
    files,                    \* app/articles: file name (slug) -> .md file
    now,                      \* the clock read by new Date()
    process,                  \* whose calls the behaviour follows
    lastOp,                   \* history: the last store call and its result
    route,                    \* the page shown: [page] or [page, slug]
    saving,                   \* ArticleGenerator: state flag of the save
    saveCall,                 \* saveStepByStepArticle: [pc, request]
    editPage,                 \* ArticleEditPage: [article, loading, error,
                              \*                   saving]
    requests,                 \* ArticleEditPage: remote requests in flight
    editor                    \* ArticleEditor: Null while not rendered

\* state of the persistence layer (clientStorage.ts, articleUtils)
persistenceVars == <<localStorage, files, now, process, lastOp>>

\* state of the ArticleGenerator component
generatorVars == <<generationStep, headingsResponse, h2Contents, error,
                   isGeneratingHeadings, isGeneratingAll, isGeneratingAllRef,
                   generationInProgressRef, headingsCall, sectionCall,
                   bulkCall, pendingRequests, bulkHistory, lastEvent>>

\* the generator's state without the history of its last event
generatorState == <<generationStep, headingsResponse, h2Contents, error,
                    isGeneratingHeadings, isGeneratingAll,
                    isGeneratingAllRef, generationInProgressRef,
                    headingsCall, sectionCall, bulkCall, pendingRequests,
                    bulkHistory>>

\* state of saving in the generator, of the edit page and of its editor
pageVars == <<route, saving, saveCall, editPage, requests, editor>>

\* what the generation handlers leave alone
otherVars == <<persistenceVars, pageVars>>

vars == <<generatorVars, persistenceVars, pageVars>>

\* ------------------------------------------------------------ pure helpers
\* join of an array of strings
RECURSIVE Join(_, _)
Join(parts, sep) ==
    IF Len(parts) = 0 THEN ""
    ELSE IF Len(parts) = 1 THEN parts[1]
    ELSE parts[1] \o sep \o Join(Tail(parts), sep)

\* Array.prototype.map over the sections with a one-argument callback
MapSections(s, F(_)) == [k \in 1..Len(s) |-> F(s[k])]

\* prev.map((h2, idx) => idx === i ? patch(h2) : h2)
PatchAt(prev, i, Patch(_)) ==
    [k \in 1..Len(prev) |-> IF k = i THEN Patch(prev[k]) ELSE prev[k]]

\* `## ${h2.heading}\n\n${h2.content}`
H2Block(h2) == "## " \o h2.heading \o "\n\n" \o h2.content

\* err instanceof Error ? err.message : fallback
ErrorMessageOf(err, fallback) == IF err.isError THEN err.message ELSE fallback

h2ContentsRef == h2Contents
headingsResponseRef == headingsResponse

\* the sections array built without the filter of line 82
CompleteArticleSectionsUnfiltered ==
    IF headingsResponse = Null THEN << >>
    ELSE << "# " \o headingsResponse.seo_content.h1_heading >>
         \o MapSections(h2Contents, H2Block)

\* the sections array of completeArticle before it is joined
CompleteArticleSections ==
    IF headingsResponse = Null THEN << >>
    ELSE << "# " \o headingsResponse.seo_content.h1_heading >>
         \o MapSections(SelectSeq(h2Contents,
                          LAMBDA h2 : h2.isGenerated /\ h2.content # ""),
                        H2Block)

completeArticle ==
    IF headingsResponse = Null THEN ""
    ELSE Join(CompleteArticleSections, "\n\n")

\* previousContent of a section request for index i over the sections cur
PreviousContent(cur, i) ==
    Join(MapSections(SelectSeq(SubSeq(cur, 1, i - 1),
                               LAMBDA h2 : h2.isGenerated),
                     H2Block),
         "\n\n")

H2Request(cur, headings, i, origin) ==
    [origin |-> origin,
     h2Index |-> i,
     seo_content |-> headings.seo_content,
     h2_heading |-> cur[i].heading,
     previous_content |-> PreviousContent(cur, i)]

AllGenerated(s) == \A k \in 1..Len(s) : s[k].isGenerated

\* ------------------------------------------------------------------- Init
IdleSection == [pc |-> "idle", h2Index |-> 0]
IdleBulk == [pc |-> "idle", i |-> 0, currentHeadings |-> Null,
             currentH2Contents |-> << >>]
NoBulkHistory == [start |-> {}, issued |-> << >>]
Event(op, kind, idx) == [op |-> op, kind |-> kind, h2Index |-> idx]

\* the browser and the server start with nothing stored
NoOp == [op |-> "none"]
PersistenceInit ==
    /\ localStorage = << >>
    /\ files = << >>
    /\ now = 1
    /\ process = "browser"
    /\ lastOp = NoOp

GeneratorInit ==
    /\ generationStep = "setup"
    /\ headingsResponse = Null
    /\ h2Contents = << >>
    /\ error = "null"
    /\ isGeneratingHeadings = FALSE
    /\ isGeneratingAll = FALSE
    /\ isGeneratingAllRef = FALSE
    /\ generationInProgressRef = FALSE
    /\ headingsCall = "idle"
    /\ sectionCall = IdleSection
    /\ bulkCall = IdleBulk
    /\ pendingRequests = {}
    /\ bulkHistory = NoBulkHistory
    /\ lastEvent = Event("none", "none", 0)

\* the generator page is shown, nothing is being saved
IdleSave == [pc |-> "idle"]
EditPageInit == [article |-> Null, loading |-> TRUE, error |-> "null",
                 saving |-> FALSE]
PageInit ==
    /\ route = [page |-> "generator"]
    /\ saving = FALSE
    /\ saveCall = IdleSave
    /\ editPage = EditPageInit
    /\ requests = << >>
    /\ editor = Null

Init == GeneratorInit /\ PersistenceInit /\ PageInit

\* ------------------------------------------------------- generateHeadings
\* "Generate Headings First" button: rendered with the form, disabled while
\* a heading request is pending.
generateHeadings ==
    /\ ~isGeneratingHeadings
    /\ headingsCall = "idle"
    /\ isGeneratingHeadings' = TRUE
    /\ error' = "null"
    /\ headingsCall' = "awaiting"
    /\ lastEvent' = Event("generateHeadings", "requested", 0)
    /\ UNCHANGED <<generationStep, headingsResponse, h2Contents,
                   isGeneratingAll, isGeneratingAllRef,
                   generationInProgressRef, sectionCall, bulkCall,
                   pendingRequests, bulkHistory>>
    /\ UNCHANGED otherVars

InitialH2Content(heading) ==
    [heading |-> heading, content |-> "", wordCount |-> 0,
     isGenerated |-> FALSE, isGenerating |-> FALSE, error |-> Undefined]

\* the sections built in the reverse of the order of the response
InitialH2ContentsReversed(response) ==
    LET n == Len(response.seo_content.h2_headings)
    IN  [k \in 1..n |->
            InitialH2Content(response.seo_content.h2_headings[n + 1 - k])]

InitialH2Contents(response) ==
    [k \in 1..Len(response.seo_content.h2_headings) |->
        InitialH2Content(response.seo_content.h2_headings[k])]

generateHeadingsResolved ==
    /\ headingsCall = "awaiting"
    /\ \E response \in HeadingsResponses :
          /\ headingsResponse' = response
          /\ h2Contents' = InitialH2Contents(response)
    /\ generationStep' = "headings"
    /\ isGeneratingHeadings' = FALSE
    /\ headingsCall' = "idle"
    /\ lastEvent' = Event("generateHeadings", "succeeded", 0)
    /\ UNCHANGED <<error, isGeneratingAll, isGeneratingAllRef,
                   generationInProgressRef, sectionCall, bulkCall,
                   pendingRequests, bulkHistory>>
    /\ UNCHANGED otherVars

\* a failure of the heading request that also resets the session
generateHeadingsRejectedResetting ==
    /\ headingsCall = "awaiting"
    /\ \E err \in ApiErrors :
          error' = ErrorMessageOf(err, "Failed to generate headings")
    /\ headingsResponse' = Null
    /\ h2Contents' = << >>
    /\ generationStep' = "setup"
    /\ isGeneratingHeadings' = FALSE
    /\ headingsCall' = "idle"
    /\ lastEvent' = Event("generateHeadings", "failed", 0)
    /\ UNCHANGED <<isGeneratingAll, isGeneratingAllRef,
                   generationInProgressRef, sectionCall, bulkCall,
                   pendingRequests, bulkHistory>>
    /\ UNCHANGED otherVars

generateHeadingsRejected ==
    /\ headingsCall = "awaiting"
    /\ \E err \in ApiErrors :
          error' = ErrorMessageOf(err, "Failed to generate headings")
    /\ isGeneratingHeadings' = FALSE
    /\ headingsCall' = "idle"
    /\ lastEvent' = Event("generateHeadings", "failed", 0)
    /\ UNCHANGED <<generationStep, headingsResponse, h2Contents,
                   isGeneratingAll, isGeneratingAllRef,
                   generationInProgressRef, sectionCall, bulkCall,
                   pendingRequests, bulkHistory>>
    /\ UNCHANGED otherVars

\* ------------------------------------------------------ generateH2Content
\* The headings panel is rendered when a headings response is present and the
\* step is "headings" (lines 767 and 812).
HeadingsPanelShown == headingsResponse # Null /\ generationStep = "headings"

\* per-section button (lines 891-893)
SectionButtonEnabled(i) ==
    /\ HeadingsPanelShown
    /\ i \in 1..Len(h2Contents)
    /\ ~(h2Contents[i].isGenerating \/ isGeneratingAll)

MarkGenerating(h2) == [h2 EXCEPT !.isGenerating = TRUE, !.error = Undefined]

StoreResponse(h2, response) ==
    [h2 EXCEPT !.content = response.generated_content,
               !.wordCount = response.word_count,
               !.isGenerated = TRUE,
               !.isGenerating = FALSE]

StoreError(h2, errorMessage) ==
    [h2 EXCEPT !.isGenerating = FALSE, !.error = errorMessage]

\* lines 207-246: the handler from its guard to the await; inProgress is the
\* value the guard of line 207 reads
generateH2ContentBody(h2Index, inProgress) ==
    IF inProgress
    THEN /\ lastEvent' = Event("generateH2Content", "rejected", h2Index)
         /\ UNCHANGED <<generationStep, headingsResponse, h2Contents,
                        error, isGeneratingHeadings, isGeneratingAll,
                        isGeneratingAllRef, generationInProgressRef,
                        headingsCall, sectionCall, bulkCall,
                        pendingRequests, bulkHistory>>
    ELSE /\ generationInProgressRef' = TRUE
         /\ error' = "null"
         /\ h2Contents' = PatchAt(h2Contents, h2Index, MarkGenerating)
         /\ pendingRequests' = pendingRequests \cup
               {H2Request(h2ContentsRef, headingsResponseRef, h2Index,
                          "generateH2Content")}
         /\ sectionCall' = [pc |-> "awaiting", h2Index |-> h2Index]
         /\ lastEvent' = Event("generateH2Content", "requested", h2Index)
         /\ UNCHANGED <<generationStep, headingsResponse,
                        isGeneratingHeadings, isGeneratingAll,
                        isGeneratingAllRef, headingsCall, bulkCall,
                        bulkHistory>>

\* generateH2Content without the guard of line 207
generateH2ContentUnguarded(h2Index) ==
    /\ SectionButtonEnabled(h2Index)
    /\ generateH2ContentBody(h2Index, FALSE)
    /\ UNCHANGED otherVars

\* lines 206-246: a click on the button of section h2Index
generateH2Content(h2Index) ==
    /\ SectionButtonEnabled(h2Index)
    /\ generateH2ContentBody(h2Index, generationInProgressRef)
    /\ UNCHANGED otherVars

RequestsOf(origin) == {r \in pendingRequests : r.origin = origin}

\* lines 246-260 and 272-274: the response arrives
generateH2ContentResolved ==
    /\ sectionCall.pc = "awaiting"
    /\ \E response \in H2ContentResponses :
          h2Contents' = PatchAt(h2Contents, sectionCall.h2Index,
                                LAMBDA h2 : StoreResponse(h2, response))
    /\ pendingRequests' = pendingRequests \ RequestsOf("generateH2Content")
    /\ generationInProgressRef' = FALSE
    /\ lastEvent' = Event("generateH2Content", "succeeded", sectionCall.h2Index)
    /\ sectionCall' = IdleSection
    /\ UNCHANGED <<generationStep, headingsResponse, error,
                   isGeneratingHeadings, isGeneratingAll, isGeneratingAllRef,
                   headingsCall, bulkCall, bulkHistory>>
    /\ UNCHANGED otherVars

\* the request fails and the guard of line 207 stays set
generateH2ContentRejectedHoldingGuard ==
    /\ sectionCall.pc = "awaiting"
    /\ \E err \in ApiErrors :
          LET errorMessage ==
                  ErrorMessageOf(err, "Failed to generate H2 content")
          IN  /\ h2Contents' = PatchAt(h2Contents, sectionCall.h2Index,
                                  LAMBDA h2 : StoreError(h2, errorMessage))
              /\ error' = errorMessage
    /\ pendingRequests' = pendingRequests \ RequestsOf("generateH2Content")
    /\ lastEvent' = Event("generateH2Content", "failed", sectionCall.h2Index)
    /\ sectionCall' = IdleSection
    /\ UNCHANGED <<generationStep, headingsResponse, isGeneratingHeadings,
                   isGeneratingAll, isGeneratingAllRef, headingsCall,
                   bulkCall, bulkHistory, generationInProgressRef>>
    /\ UNCHANGED otherVars

\* lines 261-274: the request fails
generateH2ContentRejected ==
    /\ sectionCall.pc = "awaiting"
    /\ \E err \in ApiErrors :
          LET errorMessage ==
                  ErrorMessageOf(err, "Failed to generate H2 content")
          IN  /\ h2Contents' = PatchAt(h2Contents, sectionCall.h2Index,
                                  LAMBDA h2 : StoreError(h2, errorMessage))
              /\ error' = errorMessage
    /\ pendingRequests' = pendingRequests \ RequestsOf("generateH2Content")
    /\ generationInProgressRef' = FALSE
    /\ lastEvent' = Event("generateH2Content", "failed", sectionCall.h2Index)
    /\ sectionCall' = IdleSection
    /\ UNCHANGED <<generationStep, headingsResponse, isGeneratingHeadings,
                   isGeneratingAll, isGeneratingAllRef, headingsCall,
                   bulkCall, bulkHistory>>
    /\ UNCHANGED otherVars

\* -------------------------------------------------- generateAllH2Contents
\* "Generate All Content" button (lines 819-822): rendered in the headings
\* panel while some section is not generated, disabled during a bulk run.
GenerateAllButtonEnabled ==
    /\ HeadingsPanelShown
    /\ ~AllGenerated(h2Contents)
    /\ ~isGeneratingAll

\* The same control without the render condition of line 819: the handler
\* called on any session shown in the headings panel.
GenerateAllCallable ==
    /\ HeadingsPanelShown
    /\ ~isGeneratingAll

\* history value: the indices of the snapshot that are not generated
NotGeneratedAtStart(cur) == {k \in 1..Len(cur) : ~cur[k].isGenerated}

\* the loop of line 309 without the test of line 310
EveryIndexFrom(cur, from) == from..Len(cur)

\* indices k >= from of the snapshot that the loop of line 309 would request
NotGeneratedFrom(cur, from) ==
    {k \in from..Len(cur) : ~cur[k].isGenerated}

Min(S) == CHOOSE k \in S : \A m \in S : k <= m

\* lines 381-385: the finally block, and the end of the call
BulkFinally ==
    /\ isGeneratingAllRef' = FALSE
    /\ generationInProgressRef' = FALSE
    /\ isGeneratingAll' = FALSE
    /\ bulkCall' = IdleBulk

\* lines 309-335 and 377: the loop runs from index `from` up to its next
\* await, or falls through to setGenerationStep("content"); history is the
\* record of the run so far
BulkLoopFrom(cur, headings, from, history) ==
    IF NotGeneratedFrom(cur, from) # {}
    THEN LET i == Min(NotGeneratedFrom(cur, from))
         IN  /\ h2Contents' = PatchAt(h2Contents, i, MarkGenerating)
             /\ pendingRequests' = pendingRequests \cup
                   {H2Request(cur, headings, i, "generateAllH2Contents")}
             /\ bulkCall' = [pc |-> "awaiting", i |-> i,
                             currentHeadings |-> headings,
                             currentH2Contents |-> cur]
             /\ bulkHistory' = [history EXCEPT !.issued = Append(@, i)]
             /\ lastEvent' = Event("generateAllH2Contents", "requested", i)
             /\ isGeneratingAllRef' = TRUE
             /\ generationInProgressRef' = TRUE
             /\ isGeneratingAll' = TRUE
             /\ UNCHANGED <<generationStep, error>>
    ELSE /\ generationStep' = "content"
         /\ BulkFinally
         /\ bulkHistory' = history
         /\ lastEvent' = Event("generateAllH2Contents", "completed", 0)
         /\ UNCHANGED <<h2Contents, pendingRequests, error>>

\* lines 277-335: from the call to the first await (or to the return)
generateAllH2ContentsBody ==
    IF isGeneratingAllRef \/ isGeneratingAll \/ generationInProgressRef
    THEN /\ lastEvent' = Event("generateAllH2Contents", "rejected", 0)
         /\ UNCHANGED <<generationStep, headingsResponse, h2Contents, error,
                        isGeneratingHeadings, isGeneratingAll,
                        isGeneratingAllRef, generationInProgressRef,
                        headingsCall, sectionCall, bulkCall,
                        pendingRequests, bulkHistory>>
    ELSE LET currentHeadings == headingsResponseRef
             currentH2Contents == h2ContentsRef
             history == [start |-> NotGeneratedAtStart(currentH2Contents),
                         issued |-> << >>]
         IN  /\ IF currentHeadings = Null
                THEN /\ error' = BulkFailureMessage
                     /\ BulkFinally
                     /\ bulkHistory' = history
                     /\ lastEvent' =
                           Event("generateAllH2Contents", "failed", 0)
                     /\ UNCHANGED <<generationStep, h2Contents,
                                    pendingRequests>>
                ELSE IF AllGenerated(currentH2Contents)
                THEN /\ generationStep' = "content"
                     /\ BulkFinally
                     /\ bulkHistory' = history
                     /\ lastEvent' =
                           Event("generateAllH2Contents", "completed", 0)
                     /\ UNCHANGED <<h2Contents, pendingRequests, error>>
                ELSE BulkLoopFrom(currentH2Contents, currentHeadings, 1,
                                  history)
             /\ UNCHANGED <<headingsResponse, isGeneratingHeadings,
                            headingsCall, sectionCall>>

\* a click on the rendered, enabled button
generateAllH2Contents ==
    /\ GenerateAllButtonEnabled
    /\ generateAllH2ContentsBody
    /\ UNCHANGED otherVars

\* the handler called whenever the headings panel is shown
generateAllH2ContentsCalled ==
    /\ GenerateAllCallable
    /\ generateAllH2ContentsBody
    /\ UNCHANGED otherVars

\* lines 335-357 and 373: the response of section i arrives, the pause starts
generateAllH2ContentsResolved ==
    /\ bulkCall.pc = "awaiting"
    /\ \E response \in H2ContentResponses :
          /\ h2Contents' = PatchAt(h2Contents, bulkCall.i,
                                   LAMBDA h2 : StoreResponse(h2, response))
          /\ bulkCall' = [bulkCall EXCEPT
                !.pc = "pausing",
                !.currentH2Contents =
                    PatchAt(@, bulkCall.i,
                            LAMBDA h2 : StoreResponse(h2, response))]
    /\ pendingRequests' = pendingRequests \ RequestsOf("generateAllH2Contents")
    /\ lastEvent' = Event("generateAllH2Contents", "succeeded", bulkCall.i)
    /\ UNCHANGED <<generationStep, headingsResponse, error,
                   isGeneratingHeadings, isGeneratingAll, isGeneratingAllRef,
                   generationInProgressRef, headingsCall, sectionCall,
                   bulkHistory>>
    /\ UNCHANGED otherVars

\* a failure of section i that is recorded without ending the run
generateAllH2ContentsRejectedContinuing ==
    /\ bulkCall.pc = "awaiting"
    /\ \E err \in ApiErrors :
          h2Contents' = PatchAt(h2Contents, bulkCall.i,
              LAMBDA h2 : StoreError(h2,
                  ErrorMessageOf(err, "Failed to generate H2 content")))
    /\ error' = BulkFailureMessage
    /\ bulkCall' = [bulkCall EXCEPT !.pc = "pausing"]
    /\ pendingRequests' = pendingRequests \ RequestsOf("generateAllH2Contents")
    /\ lastEvent' = Event("generateAllH2Contents", "failed", bulkCall.i)
    /\ UNCHANGED <<generationStep, headingsResponse, isGeneratingHeadings,
                   isGeneratingAll, isGeneratingAllRef,
                   generationInProgressRef, headingsCall, sectionCall,
                   bulkHistory>>
    /\ UNCHANGED otherVars

\* lines 358-371 and 378-385: the request of section i fails
generateAllH2ContentsRejected ==
    /\ bulkCall.pc = "awaiting"
    /\ \E err \in ApiErrors :
          h2Contents' = PatchAt(h2Contents, bulkCall.i,
              LAMBDA h2 : StoreError(h2,
                  ErrorMessageOf(err, "Failed to generate H2 content")))
    /\ error' = BulkFailureMessage
    /\ BulkFinally
    /\ pendingRequests' = pendingRequests \ RequestsOf("generateAllH2Contents")
    /\ lastEvent' = Event("generateAllH2Contents", "failed", bulkCall.i)
    /\ UNCHANGED <<generationStep, headingsResponse, isGeneratingHeadings,
                   headingsCall, sectionCall, bulkHistory>>
    /\ UNCHANGED otherVars

\* the loop going on to the next index without the awaits of lines 335, 373
generateAllH2ContentsNoAwait ==
    /\ bulkCall.pc \in {"awaiting", "pausing"}
    /\ BulkLoopFrom(bulkCall.currentH2Contents, bulkCall.currentHeadings,
                    bulkCall.i + 1, bulkHistory)
    /\ UNCHANGED <<headingsResponse, isGeneratingHeadings, headingsCall,
                   sectionCall>>
    /\ UNCHANGED otherVars

\* line 373 resolves after 500ms: the loop goes on with the next index
generateAllH2ContentsPauseElapsed ==
    /\ bulkCall.pc = "pausing"
    /\ BulkLoopFrom(bulkCall.currentH2Contents, bulkCall.currentHeadings,
                    bulkCall.i + 1, bulkHistory)
    /\ UNCHANGED <<headingsResponse, isGeneratingHeadings, headingsCall,
                   sectionCall>>
    /\ UNCHANGED otherVars

\* ------------------------------------------------------------- navigation
\* "Back to Setup" (lines 834-839)
BackToSetup ==
    /\ HeadingsPanelShown
    /\ generationStep' = "setup"
    /\ lastEvent' = Event("BackToSetup", "clicked", 0)
    /\ UNCHANGED <<headingsResponse, h2Contents, error,
                   isGeneratingHeadings, isGeneratingAll, isGeneratingAllRef,
                   generationInProgressRef, headingsCall, sectionCall,
                   bulkCall, pendingRequests, bulkHistory>>
    /\ UNCHANGED otherVars

\* "View Complete Article" (lines 958-976)
ViewCompleteArticle ==
    /\ HeadingsPanelShown
    /\ AllGenerated(h2Contents)
    /\ ~isGeneratingAll
    /\ generationStep' = "content"
    /\ lastEvent' = Event("ViewCompleteArticle", "clicked", 0)
    /\ UNCHANGED <<headingsResponse, h2Contents, error,
                   isGeneratingHeadings, isGeneratingAll, isGeneratingAllRef,
                   generationInProgressRef, headingsCall, sectionCall,
                   bulkCall, pendingRequests, bulkHistory>>
    /\ UNCHANGED otherVars

\* "Back to Headings" (lines 998-1003)
BackToHeadings ==
    /\ headingsResponse # Null
    /\ generationStep = "content"
    /\ generationStep' = "headings"
    /\ lastEvent' = Event("BackToHeadings", "clicked", 0)
    /\ UNCHANGED <<headingsResponse, h2Contents, error,
                   isGeneratingHeadings, isGeneratingAll, isGeneratingAllRef,
                   generationInProgressRef, headingsCall, sectionCall,
                   bulkCall, pendingRequests, bulkHistory>>
    /\ UNCHANGED otherVars

\* --------------------------------------------------------- specifications
Handlers ==
    \/ generateHeadings
    \/ generateHeadingsResolved
    \/ generateHeadingsRejected
    \/ \E i \in 1..MaxH2 : generateH2Content(i)
    \/ generateH2ContentResolved
    \/ generateH2ContentRejected
    \/ generateAllH2ContentsResolved
    \/ generateAllH2ContentsRejected
    \/ generateAllH2ContentsPauseElapsed
    \/ BackToSetup
    \/ ViewCompleteArticle
    \/ BackToHeadings

\* the component as the user drives it through the rendered controls
Next == Handlers \/ generateAllH2Contents

Spec == Init /\ [][Next]_vars

\* the same component with generateAllH2Contents called on any session of
\* the headings panel, whether or not line 819 renders its button
NextCalled == Handlers \/ generateAllH2ContentsCalled

SpecCalled == Init /\ [][NextCalled]_vars

\* ------------------------------------------------------------ vocabulary
\* a section request is in flight, or a bulk run is between its start and end
Busy == pendingRequests # {} \/ bulkCall.pc # "idle"

\* the statuses of a section as the code tells them apart: it treats a
\* section as generated wherever isGenerated is set (lines 82, 231, 304, 310)
IsGenerated(h2) == h2.isGenerated
IsFailed(h2) == h2.error # Undefined /\ ~h2.isGenerated /\ ~h2.isGenerating
IsPending(h2) == h2.error = Undefined /\ ~h2.isGenerated /\ ~h2.isGenerating

OtherSectionsUnchanged(i) ==
    /\ Len(h2Contents') = Len(h2Contents)
    /\ \A k \in 1..Len(h2Contents) : k # i => h2Contents'[k] = h2Contents[k]

\* this step is a call of generateH2Content or generateAllH2Contents
SectionOperationCalled ==
    \/ /\ lastEvent'.op = "generateH2Content"
       /\ lastEvent'.kind \in {"requested", "rejected"}
    \/ /\ lastEvent'.op = "generateAllH2Contents"
       /\ bulkCall.pc = "idle"

C2_CompletedRunLeavesAllGenerated ==
    lastEvent = Event("generateAllH2Contents", "completed", 0)
        => AllGenerated(h2Contents)

\* ------------------------------------------------------------------ C3
\* C3: the step changes only along setup->headings, headings->content,
\* headings->setup and content->headings, and has no other value.
PhaseMoves ==
    {<<"setup", "headings">>, <<"headings", "content">>,
     <<"headings", "setup">>, <<"content", "headings">>}

C3_PhaseTransitions ==
    /\ [](generationStep \in {"setup", "headings", "content"})
    /\ [][generationStep' # generationStep =>
             <<generationStep, generationStep'>> \in PhaseMoves]_vars

\* ------------------------------------------------------------------ C4
\* this step is the failure of the request of generateH2Content(i), and
\* section i exists
SectionRequestFails(i) ==
    /\ sectionCall.pc = "awaiting"
    /\ sectionCall.h2Index = i
    /\ lastEvent' = Event("generateH2Content", "failed", i)
    /\ i \in 1..Len(h2Contents)

\* C4: when generateH2Content(i) fails, section i ends failed with an error
\* message, the session error is set, and no other section changes, for a
\* first generation and for a regeneration alike.
C4_SectionFailure ==
    [][\A i \in 1..MaxH2 : SectionRequestFails(i) =>
           /\ IsFailed(h2Contents'[i])
           /\ error' # "null"
           /\ OtherSectionsUnchanged(i)]_vars

\* ------------------------------------------------------------------ C5
\* this step is the failure of the request a bulk run issued for section i
BulkRequestFails(i) ==
    /\ bulkCall.pc = "awaiting"
    /\ bulkCall.i = i
    /\ lastEvent' = Event("generateAllH2Contents", "failed", i)

KeepsResult(i) ==
    i \in 1..Len(h2Contents) =>
        /\ h2Contents'[i].content = h2Contents[i].content
        /\ h2Contents'[i].wordCount = h2Contents[i].wordCount
        /\ h2Contents'[i].isGenerated = h2Contents[i].isGenerated

\* C5: a section failure inside a bulk run ends the run at once: no further
\* request is issued, the sections keep their content, word count and
\* generated flag, the bulk-failure message is set and the step is not moved
\* to "content".
C5_BulkAbortsOnFailure ==
    /\ [][\A i \in 1..MaxH2 : BulkRequestFails(i) =>
             /\ bulkCall'.pc = "idle"
             /\ pendingRequests' = {}
             /\ bulkHistory' = bulkHistory
             /\ OtherSectionsUnchanged(i)
             /\ KeepsResult(i)
             /\ error' = BulkFailureMessage
             /\ generationStep' = generationStep
             /\ generationStep' # "content"]_vars
    /\ [][bulkCall.pc = "idle" /\ bulkCall'.pc = "idle"
             => bulkHistory'.issued = << >> \/ bulkHistory' = bulkHistory]_vars

\* a bulk run failed on its second request, after a first section succeeded
C5_Witness ==
    /\ lastEvent = Event("generateAllH2Contents", "failed", 2)
    /\ bulkHistory.issued = <<1, 2>>
    /\ Len(h2Contents) >= 2
    /\ h2Contents[1].isGenerated
    /\ h2Contents[2].error # Undefined

\* ------------------------------------------------------------------ C6
\* C6: a bulk run requests only sections that were not generated when it
\* started; called on a session whose sections are all generated it issues
\* no request and changes no section.
C6_BulkSkipsGenerated ==
    /\ [](\A k \in 1..Len(bulkHistory.issued) :
              bulkHistory.issued[k] \in bulkHistory.start)
    /\ [][(bulkCall.pc = "idle" /\ AllGenerated(h2Contents)
             /\ lastEvent'.op = "generateAllH2Contents") =>
             /\ pendingRequests' = pendingRequests
             /\ h2Contents' = h2Contents
             /\ bulkCall'.pc = "idle"]_vars

\* a bulk run on a session with every section generated ended at once
C6_Witness ==
    /\ lastEvent = Event("generateAllH2Contents", "completed", 0)
    /\ bulkHistory = [start |-> {}, issued |-> << >>]
    /\ Len(h2Contents) >= 1
    /\ AllGenerated(h2Contents)
    /\ pendingRequests = {}

\* ------------------------------------------------------------------ C7
\* C7: one bulk run issues its requests in strictly ascending index order,
\* and each request after the first only when the previous response has been
\* processed and the pause that follows it has elapsed.
C7_BulkSequential ==
    /\ [](\A k \in 1..(Len(bulkHistory.issued) - 1) :
              bulkHistory.issued[k] < bulkHistory.issued[k + 1])
    /\ [][(bulkHistory'.issued # bulkHistory.issued
             /\ bulkHistory'.issued # << >>) =>
             /\ pendingRequests = {}
             /\ Len(bulkHistory'.issued) > 1 =>
                   /\ bulkCall.pc = "pausing"
                   /\ bulkHistory'.issued =
                         Append(bulkHistory.issued, bulkCall'.i)
                   /\ bulkCall.currentH2Contents[bulkCall.i].isGenerated]_vars

\* the second request of a run is in flight
C7_Witness ==
    /\ bulkHistory.issued = <<1, 2>>
    /\ bulkCall.pc = "awaiting"
    /\ Cardinality(pendingRequests) = 1

\* ------------------------------------------------------------------ C8
HeadingsOf(s) == [k \in 1..Len(s) |-> s[k].heading]

HeadingsJustSucceeded ==
    /\ headingsCall = "awaiting"
    /\ lastEvent' = Event("generateHeadings", "succeeded", 0)

\* C8: after generateHeadings succeeds the sections are exactly the returned
\* H2 headings in order, each pending with empty content and word count 0,
\* and the step is "headings"; until the next success no step reorders,
\* inserts, removes or renames a section.
C8_SectionsMirrorHeadings ==
    /\ [](IF headingsResponse = Null THEN h2Contents = << >>
          ELSE HeadingsOf(h2Contents) =
                  headingsResponse.seo_content.h2_headings)
    /\ [][HeadingsJustSucceeded =>
             /\ generationStep' = "headings"
             /\ \A k \in 1..Len(h2Contents') :
                   /\ IsPending(h2Contents'[k])
                   /\ h2Contents'[k].content = ""
                   /\ h2Contents'[k].wordCount = 0]_vars
    /\ [][~HeadingsJustSucceeded =>
             HeadingsOf(h2Contents') = HeadingsOf(h2Contents)]_vars

\* two sections, the first generated since the headings arrived
C8_Witness ==
    /\ headingsResponse # Null
    /\ Len(h2Contents) >= 2
    /\ h2Contents[1].isGenerated
    /\ h2Contents[1].heading # h2Contents[2].heading

\* ------------------------------------------------------------------ C9
\* C9: a failed heading request leaves headings, sections and step as they
\* were (the call itself changes none of them either) and sets the session
\* error.
C9_HeadingsFailureKeepsState ==
    /\ [][(headingsCall = "awaiting"
             /\ lastEvent' = Event("generateHeadings", "failed", 0)) =>
             /\ headingsResponse' = headingsResponse
             /\ h2Contents' = h2Contents
             /\ generationStep' = generationStep
             /\ error' # "null"]_vars
    /\ [][(headingsCall = "idle" /\ headingsCall' = "awaiting") =>
             /\ headingsResponse' = headingsResponse
             /\ h2Contents' = h2Contents
             /\ generationStep' = generationStep]_vars

\* a heading request failed on a session that already had sections
C9_Witness ==
    /\ lastEvent = Event("generateHeadings", "failed", 0)
    /\ error = "Network Error"
    /\ generationStep = "headings"
    /\ Len(h2Contents) >= 1

\* ----------------------------------------------------------------- C10
\* the n-th smallest element of a set of indices
NthOf(S, n) == CHOOSE k \in S : Cardinality({m \in S : m < k}) = n - 1

\* the assembled article is the H1 line followed by one block for each
\* section whose index is in S, in index order, and nothing else
ArticleIsH1AndBlocksOf(S) ==
    LET article == CompleteArticleSections
    IN  /\ Len(article) = 1 + Cardinality(S)
        /\ article[1] = "# " \o headingsResponse.seo_content.h1_heading
        /\ \A n \in 1..Cardinality(S) :
              article[n + 1] = "## " \o h2Contents[NthOf(S, n)].heading
                                 \o "\n\n" \o h2Contents[NthOf(S, n)].content

\* C10 as stated: with headings present, the assembled article is the H1
\* line and exactly one block per generated section, in index order.
C10_BlockPerGeneratedSection ==
    headingsResponse # Null =>
        ArticleIsH1AndBlocksOf(
            {k \in 1..Len(h2Contents) : h2Contents[k].isGenerated})

\* C10 amended: with headings present, the assembled article is the H1 line
\* and exactly one block per section that is generated and whose content is
\* not empty, in index order; a section that is not generated, or whose
\* content is empty, has no block.
C10_BlockPerGeneratedNonEmptySection ==
    headingsResponse # Null =>
        ArticleIsH1AndBlocksOf(
            {k \in 1..Len(h2Contents) :
                h2Contents[k].isGenerated /\ h2Contents[k].content # ""})

\* one section with a block and one section without
C10_Witness ==
    /\ headingsResponse # Null
    /\ Len(h2Contents) >= 2
    /\ h2Contents[2].isGenerated /\ h2Contents[2].content # ""
    /\ ~h2Contents[1].isGenerated
    /\ Len(CompleteArticleSections) = 2

\* ======================================================================
\* Persistence: the slug utility, the local cache of clientStorage.ts and
\* the file-based store of articleUtils.  Strings that are slugified are
\* handled as arrays of characters; a timestamp is the reading of the clock
\* `now` (toISOString of a later instant compares greater).
\* ======================================================================

\* ------------------------------------------------------------------ bounds
MaxNow == 3                     \* last instant of the clock

\* ------------------------------------------------------------ slug utility
\* a string as the array of its characters, and back
CharsOf(str) == [k \in 1..Len(str) |-> SubSeq(str, k, k)]
Text(cs) == Join(cs, "")

UpperCase ==
    LET letters == "ABCDEFGHIJKLMNOPQRSTUVWXYZ"
    IN  {SubSeq(letters, k, k) : k \in 1..Len(letters)}
LowerCase ==
    LET letters == "abcdefghijklmnopqrstuvwxyz"
    IN  {SubSeq(letters, k, k) : k \in 1..Len(letters)}
Digits ==
    LET digits == "0123456789"
    IN  {SubSeq(digits, k, k) : k \in 1..Len(digits)}
WordChars == UpperCase \cup LowerCase \cup Digits \cup {"_"}     \* \w
Whitespace == {" ", "\t", "\n"}                                  \* \s

\* String.prototype.toLowerCase on one character
LowerOf(c) ==
    LET upper == "ABCDEFGHIJKLMNOPQRSTUVWXYZ"
        lower == "abcdefghijklmnopqrstuvwxyz"
    IN  IF c \in UpperCase
        THEN LET k == CHOOSE k \in 1..Len(upper) : SubSeq(upper, k, k) = c
             IN  SubSeq(lower, k, k)
        ELSE c

\* .toLowerCase()
ToLowerCase(cs) == [k \in 1..Len(cs) |-> LowerOf(cs[k])]

\* a strip that removes the underscore as well
StripSpecialAndUnderscore(cs) ==
    SelectSeq(cs, LAMBDA c : c \in (WordChars \ {"_"}) \cup Whitespace
                                       \cup {"-"})

\* .replace(/[^\w\s-]/g, '')
StripSpecial(cs) ==
    SelectSeq(cs, LAMBDA c : c \in WordChars \cup Whitespace \cup {"-"})

\* .replace(/[\s_-]+/g, '-')
RECURSIVE CollapseSeparators(_)
CollapseSeparators(cs) ==
    IF cs = << >> THEN << >>
    ELSE IF Head(cs) \in Whitespace \cup {"_", "-"}
    THEN LET rest == CollapseSeparators(Tail(cs))
         IN  IF rest # << >> /\ Head(rest) = "-" /\ Len(cs) > 1
                /\ cs[2] \in Whitespace \cup {"_", "-"}
             THEN rest
             ELSE << "-" >> \o rest
    ELSE << Head(cs) >> \o CollapseSeparators(Tail(cs))

\* .replace(/^-+|-+$/g, '')
RECURSIVE TrimHyphens(_)
TrimHyphens(cs) ==
    IF cs = << >> THEN << >>
    ELSE IF Head(cs) = "-" THEN TrimHyphens(Tail(cs))
    ELSE IF cs[Len(cs)] = "-" THEN TrimHyphens(SubSeq(cs, 1, Len(cs) - 1))
    ELSE cs

\* the hyphens trimmed before the separators are collapsed
createSlugTrimmingFirst(title) ==
    Text(CollapseSeparators(TrimHyphens(StripSpecial(
            ToLowerCase(CharsOf(title))))))

createSlug(title) ==
    Text(TrimHyphens(CollapseSeparators(StripSpecial(
            ToLowerCase(CharsOf(title))))))

\* ------------------------------------------------------- values of a store
\* titles of create calls: two that share a slug, one whose slug is empty
Titles == {"T", "t!", "!"}
Contents == {"c1", "c2"}
NoNumber == -1                  \* an absent (undefined) numeric field

\* metadata argument of a create call: what saveStepByStepArticle passes
GeneratorMetadata ==
    [topic |-> "topic", keywords |-> <<"k1", "k2">>, tone |-> "casual",
     wordCount |-> 2, readabilityScore |-> 70, seoScore |-> NoNumber,
     createdAt |-> NoNumber, metaDescription |-> "meta"]
Metadatas == {GeneratorMetadata}

\* updates argument of an update call: the three keys handleSave of the
\* editor always passes, a key of an unchanged field holding undefined
Updates ==
    {[title |-> "A _b", content |-> Undefined,
      metaDescription |-> Undefined],
     [title |-> Undefined, content |-> "c2", metaDescription |-> "meta2"]}

\* v || d for a string and for a number
OrString(v, d) == IF v = Undefined \/ v = "" THEN d ELSE v
OrNumber(v, d) == IF v = NoNumber \/ v = 0 THEN d ELSE v

\* index of the first element with this slug, 0 when there is none
\* (findIndex, which returns -1)
FindIndexBySlug(articles, slug) ==
    IF \E k \in 1..Len(articles) : articles[k].slug = slug
    THEN CHOOSE k \in 1..Len(articles) :
            /\ articles[k].slug = slug
            /\ \A m \in 1..(k - 1) : articles[m].slug # slug
    ELSE 0

\* ------------------------------------------------------------ local cache
STORAGE_KEY == "seo-articles"

\* getItem(STORAGE_KEY) is not null
HasStored == STORAGE_KEY \in DOMAIN localStorage

\* JSON.parse(localStorage.getItem(STORAGE_KEY)) when the key is stored
StoredArticles == localStorage[STORAGE_KEY]

\* localStorage.setItem(STORAGE_KEY, JSON.stringify(articles))
SetItem(articles) == STORAGE_KEY :> articles

\* a lookup that matches the title instead of the slug
getClientArticleByTitle(slug) ==
    IF ~HasStored THEN Null
    ELSE IF \E k \in 1..Len(StoredArticles) : StoredArticles[k].title = slug
    THEN StoredArticles[CHOOSE k \in 1..Len(StoredArticles) :
                            StoredArticles[k].title = slug]
    ELSE Null

\* lines 67-78
getClientArticleBySlug(slug) ==
    IF ~HasStored THEN Null
    ELSE LET index == FindIndexBySlug(StoredArticles, slug)
         IN  IF index = 0 THEN Null ELSE StoredArticles[index]

\* lines 87-101: the record saveClientArticle builds
NewClientArticle(title, content, metadata) ==
    [title |-> title,
     slug |-> createSlug(title),
     topic |-> OrString(metadata.topic, ""),
     keywords |-> metadata.keywords,
     tone |-> OrString(metadata.tone, "professional"),
     wordCount |-> OrNumber(metadata.wordCount, 0),
     readabilityScore |-> OrNumber(metadata.readabilityScore, 0),
     seoScore |-> metadata.seoScore,
     createdAt |-> OrNumber(metadata.createdAt, now),
     updatedAt |-> now,
     content |-> content,
     metaDescription |-> OrString(metadata.metaDescription, "")]

\* a create that always pushes the new record
AppendedArticles(articles, article) == Append(articles, article)

\* lines 103-116: the array saveClientArticle writes back
UpsertedArticles(articles, article) ==
    LET existingIndex == FindIndexBySlug(articles, article.slug)
    IN  IF existingIndex > 0
        THEN [articles EXCEPT ![existingIndex] = article]
        ELSE Append(articles, article)

\* lines 81-124; setItemThrows: localStorage.setItem raises (quota exceeded)
saveClientArticle(title, content, metadata, setItemThrows) ==
    LET article == NewClientArticle(title, content, metadata)
        articles == IF HasStored THEN StoredArticles ELSE << >>
    IN  /\ localStorage' =
              IF setItemThrows THEN localStorage
              ELSE SetItem(UpsertedArticles(articles, article))
        /\ lastOp' = [op |-> "saveClientArticle", slug |-> article.slug,
                      content |-> content, threw |-> setItemThrows,
                      result |-> IF setItemThrows THEN Undefined
                                 ELSE article.slug]

\* line 142: {...articles[index], ...updates, updatedAt}
MergedArticle(article, updates) ==
    [key \in DOMAIN article |->
        IF key = "updatedAt" THEN now
        ELSE IF key \in DOMAIN updates THEN updates[key]
        ELSE article[key]]

\* an update that writes the store back when the slug is absent, too
updateClientArticleAlwaysWriting(slug, updates, setItemThrows) ==
    LET index == IF HasStored THEN FindIndexBySlug(StoredArticles, slug)
                 ELSE 0
        articles == IF HasStored THEN StoredArticles ELSE << >>
    IN  /\ localStorage' =
              IF setItemThrows THEN localStorage
              ELSE IF index > 0
              THEN SetItem([articles EXCEPT
                               ![index] = MergedArticle(@, updates)])
              ELSE SetItem(articles)
        /\ lastOp' = [op |-> "updateClientArticle", slug |-> slug,
                      updates |-> updates, threw |-> FALSE,
                      result |-> index > 0 /\ ~setItemThrows]

\* lines 127-152
updateClientArticle(slug, updates, setItemThrows) ==
    LET index == IF HasStored THEN FindIndexBySlug(StoredArticles, slug)
                 ELSE 0
        written == index > 0 /\ ~setItemThrows
    IN  /\ localStorage' =
              IF written
              THEN SetItem([StoredArticles EXCEPT
                               ![index] = MergedArticle(@, updates)])
              ELSE localStorage
        /\ lastOp' = [op |-> "updateClientArticle", slug |-> slug,
                      updates |-> updates, threw |-> FALSE,
                      result |-> written]

\* lines 155-169
deleteClientArticle(slug, setItemThrows) ==
    LET written == HasStored /\ ~setItemThrows
    IN  /\ localStorage' =
              IF written
              THEN SetItem(SelectSeq(StoredArticles,
                                     LAMBDA a : a.slug # slug))
              ELSE localStorage
        /\ lastOp' = [op |-> "deleteClientArticle", slug |-> slug,
                      threw |-> FALSE, result |-> written]

\* ------------------------------------------------------- file-based store
MaxContentLen == 3              \* longest content an update reads back

\* fs.existsSync(`${slug}.md`)
FileExists(slug) == slug \in DOMAIN files

\* lines 40-63: the front matter and body written to a file
createMarkdownContent(title, content, metadata) ==
    [title |-> title,
     topic |-> OrString(metadata.topic, ""),
     keywords |-> metadata.keywords,
     tone |-> OrString(metadata.tone, "professional"),
     wordCount |-> OrNumber(metadata.wordCount, 0),
     readabilityScore |-> OrNumber(metadata.readabilityScore, 0),
     seoScore |-> OrNumber(metadata.seoScore, 0),
     createdAt |-> OrNumber(metadata.createdAt, now),
     updatedAt |-> now,
     metaDescription |-> OrString(metadata.metaDescription, ""),
     body |-> content]

\* lines 152-210: the front matter holds no slug line, so the slug is
\* derived from the title; the text after "---\n" starts with the empty
\* line that createMarkdownContent puts before the content
parseArticleMetadata(file) ==
    [title |-> OrString(file.title, ""),
     slug |-> createSlug(OrString(file.title, "")),
     topic |-> OrString(file.topic, ""),
     keywords |-> file.keywords,
     tone |-> OrString(file.tone, "professional"),
     wordCount |-> OrNumber(file.wordCount, 0),
     readabilityScore |-> OrNumber(file.readabilityScore, 0),
     seoScore |-> file.seoScore,
     createdAt |-> file.createdAt,
     updatedAt |-> file.updatedAt,
     content |-> "\n" \o file.body,
     metaDescription |-> OrString(file.metaDescription, "")]

\* lines 134-149
getArticleBySlug(slug) ==
    IF ~FileExists(slug) THEN Null ELSE parseArticleMetadata(files[slug])

\* fs.writeFileSync(`${slug}.md`, text)
WriteFile(slug, text) ==
    [name \in DOMAIN files \cup {slug} |->
        IF name = slug THEN text ELSE files[name]]

\* fs.unlinkSync(`${slug}.md`)
UnlinkFile(slug) == [name \in DOMAIN files \ {slug} |-> files[name]]

\* lines 66-90
saveArticle(title, content, metadata) ==
    LET slug == createSlug(title)
    IN  /\ files' = WriteFile(slug,
                              createMarkdownContent(title, content, metadata))
        /\ lastOp' = [op |-> "saveArticle", slug |-> slug,
                      content |-> content, threw |-> FALSE, result |-> slug]

\* lines 213-246
updateArticle(slug, updates) ==
    LET article == getArticleBySlug(slug)
    IN  IF article = Null
        THEN /\ files' = files
             /\ lastOp' = [op |-> "updateArticle", slug |-> slug,
                           updates |-> updates, threw |-> TRUE,
                           result |-> "Article not found"]
        ELSE LET updatedMetadata == MergedArticle(article, updates)
             IN  /\ files' = WriteFile(slug,
                        createMarkdownContent(
                            OrString(updates.title, article.title),
                            OrString(updates.content, article.content),
                            updatedMetadata))
                 /\ lastOp' = [op |-> "updateArticle", slug |-> slug,
                               updates |-> updates, threw |-> FALSE,
                               result |-> TRUE]

\* lines 249-265
deleteArticle(slug) ==
    IF FileExists(slug)
    THEN /\ files' = UnlinkFile(slug)
         /\ lastOp' = [op |-> "deleteArticle", slug |-> slug,
                       threw |-> FALSE, result |-> TRUE]
    ELSE /\ files' = files
         /\ lastOp' = [op |-> "deleteArticle", slug |-> slug,
                       threw |-> TRUE, result |-> "Article not found"]

\* ------------------------------------------------- the stores under calls
\* the clock advances between two calls, or does not
Tick ==
    /\ now < MaxNow
    /\ now' = now + 1
    /\ UNCHANGED <<localStorage, files, process, lastOp, generatorVars,
                   pageVars>>

\* the slugs a caller can ask for
Slugs == {createSlug(t) : t \in Titles} \cup {"none"}

CacheCreate ==
    /\ process = "browser"
    /\ \E title \in Titles, content \in Contents, metadata \in Metadatas,
          setItemThrows \in BOOLEAN :
           saveClientArticle(title, content, metadata, setItemThrows)
    /\ UNCHANGED <<files, now, process, generatorVars,
                   pageVars>>

CacheUpdate ==
    /\ process = "browser"
    /\ \E slug \in Slugs, updates \in Updates, setItemThrows \in BOOLEAN :
           updateClientArticle(slug, updates, setItemThrows)
    /\ UNCHANGED <<files, now, process, generatorVars,
                   pageVars>>

CacheDelete ==
    /\ process = "browser"
    /\ \E slug \in Slugs, setItemThrows \in BOOLEAN :
           deleteClientArticle(slug, setItemThrows)
    /\ UNCHANGED <<files, now, process, generatorVars,
                   pageVars>>

FilesCreate ==
    /\ process = "server"
    /\ \E title \in Titles, content \in Contents, metadata \in Metadatas :
           saveArticle(title, content, metadata)
    /\ UNCHANGED <<localStorage, now, process, generatorVars,
                   pageVars>>

FilesUpdate ==
    /\ process = "server"
    /\ \E slug \in Slugs, updates \in Updates :
          /\ FileExists(slug) => Len(files[slug].body) < MaxContentLen
          /\ updateArticle(slug, updates)
    /\ UNCHANGED <<localStorage, now, process, generatorVars,
                   pageVars>>

FilesDelete ==
    /\ process = "server"
    /\ \E slug \in Slugs : deleteArticle(slug)
    /\ UNCHANGED <<localStorage, now, process, generatorVars,
                   pageVars>>

\* The browser's local cache and the server's file store share no state: a
\* behaviour follows the calls made in one of the two processes.
InitStore ==
    /\ GeneratorInit
    /\ localStorage = << >>
    /\ files = << >>
    /\ now = 1
    /\ process \in {"browser", "server"}
    /\ lastOp = NoOp
    /\ PageInit

NextStore ==
    \/ CacheCreate
    \/ CacheUpdate
    \/ CacheDelete
    \/ FilesCreate
    \/ FilesUpdate
    \/ FilesDelete
    \/ Tick

\* each store driven by any sequence of calls, from an empty store
SpecStore == InitStore /\ [][NextStore]_vars

\* ------------------------------------------------- vocabulary of the stores
\* this step is a call of the store operation `op` (the clock stands still
\* during a call, and every call leaves its record in lastOp)
StoreCall(op) == now' = now /\ lastOp'.op = op

\* the records of the local cache, none when nothing is stored
CachedArticles == IF HasStored THEN StoredArticles ELSE << >>

\* the slug is the slug of some record of the array
SlugIn(articles, slug) ==
    \E k \in 1..Len(articles) : articles[k].slug = slug

\* the slug is the slug of some record of the local cache
Cached(slug) == SlugIn(CachedArticles, slug)

\* the fields a caller of update can provide
UpdatableFields == {"title", "content", "metaDescription"}

\* ---------------------------------------------------------------------- C12
\* C12: a successful update(slug, partial) on the local cache changes, in
\* the record of that slug, exactly the fields for which the caller gave a
\* value and updatedAt; a field given as undefined and every other field
\* keeps its stored value, and every other record is unchanged.
C12_UpdateChangesOnlyProvidedFields ==
    [][(StoreCall("updateClientArticle") /\ lastOp'.result = TRUE) =>
          LET before == CachedArticles
              after == CachedArticles'
              updates == lastOp'.updates
              i == FindIndexBySlug(before, lastOp'.slug)
          IN  /\ Len(after) = Len(before)
              /\ \A k \in 1..Len(before) : k # i => after[k] = before[k]
              /\ after[i].updatedAt = now
              /\ \A key \in DOMAIN before[i] \ {"updatedAt"} :
                    after[i][key] =
                        IF key \in UpdatableFields /\ updates[key] # Undefined
                        THEN updates[key]
                        ELSE before[i][key]]_vars

\* ---------------------------------------------------------------------- C13
\* C13: an update on a slug that is absent from the store reports failure
\* (false from the local cache, the rejection "Article not found" from the
\* file store) and leaves the stored collection exactly as it was.
C13_UpdateAbsentFails ==
    /\ [][(StoreCall("updateClientArticle") /\ ~Cached(lastOp'.slug)) =>
             /\ lastOp'.result = FALSE
             /\ localStorage' = localStorage]_vars
    /\ [][(StoreCall("updateArticle") /\ ~FileExists(lastOp'.slug)) =>
             /\ lastOp'.threw
             /\ lastOp'.result = "Article not found"
             /\ files' = files]_vars

\* an update of an absent slug has just failed on a cache that holds records
C13_Witness ==
    /\ process = "browser"
    /\ lastOp.op = "updateClientArticle"
    /\ lastOp.result = FALSE
    /\ Len(CachedArticles) > 0
    /\ ~Cached(lastOp.slug)

\* ---------------------------------------------------------------------- C14
\* C14: delete(slug) reports success only when a record with that slug was
\* stored and has been removed; a delete of an absent slug reports failure
\* and leaves every stored record in place, in both stores.
C14_DeleteReportsExistence ==
    /\ [][StoreCall("deleteClientArticle") =>
             /\ lastOp'.result = TRUE =>
                   (Cached(lastOp'.slug)
                    /\ ~SlugIn(CachedArticles', lastOp'.slug))
             /\ ~Cached(lastOp'.slug) =>
                   (lastOp'.result = FALSE
                    /\ CachedArticles' = CachedArticles)]_vars
    /\ [][StoreCall("deleteArticle") =>
             /\ ~lastOp'.threw =>
                   (FileExists(lastOp'.slug)
                    /\ lastOp'.slug \notin DOMAIN files')
             /\ ~FileExists(lastOp'.slug) =>
                   (lastOp'.threw /\ files' = files)]_vars

\* ---------------------------------------------------------------------- C15
\* C15: in the local cache a record keeps the createdAt of the first create
\* of its slug through every later update and every overwriting create,
\* each such mutation sets updatedAt to the time of the call, and
\* updatedAt is never earlier than createdAt.
C15_CreatedAtFixed ==
    /\ [](\A k \in 1..Len(CachedArticles) :
             CachedArticles[k].createdAt <= CachedArticles[k].updatedAt)
    /\ [][(\/ StoreCall("saveClientArticle") /\ ~lastOp'.threw
           \/ StoreCall("updateClientArticle") /\ lastOp'.result = TRUE) =>
             LET slug == lastOp'.slug
                 written == CachedArticles'[FindIndexBySlug(CachedArticles',
                                                            slug)]
             IN  /\ written.updatedAt = now
                 /\ Cached(slug) =>
                       written.createdAt =
                           CachedArticles[FindIndexBySlug(CachedArticles,
                                                          slug)].createdAt
                 /\ ~Cached(slug) => written.createdAt = now]_vars

\* ---------------------------------------------------------------------- C16
\* C16: updates never change the slug a record is reported under: an update
\* of the local cache leaves the slug of every record as it was, and the
\* record the file store returns for a stored slug reports that slug.
C16_SlugStable ==
    /\ [][StoreCall("updateClientArticle") =>
             /\ Len(CachedArticles') = Len(CachedArticles)
             /\ \A k \in 1..Len(CachedArticles) :
                   CachedArticles'[k].slug = CachedArticles[k].slug]_vars
    /\ [](\A slug \in DOMAIN files : getArticleBySlug(slug).slug = slug)

\* ---------------------------------------------------------------------- C17
\* C17: the records of the local cache have pairwise different slugs; a
\* create whose slug is already stored replaces that record at its index,
\* any other create appends one record, and all other records are unchanged.
C17_UpsertKeepsSlugsUnique ==
    /\ [](\A j, k \in 1..Len(CachedArticles) :
             CachedArticles[j].slug = CachedArticles[k].slug => j = k)
    /\ [][(StoreCall("saveClientArticle") /\ ~lastOp'.threw) =>
             LET before == CachedArticles
                 after == CachedArticles'
                 i == FindIndexBySlug(before, lastOp'.slug)
                 at == IF i > 0 THEN i ELSE Len(before) + 1
             IN  /\ Len(after) = IF i > 0 THEN Len(before)
                                 ELSE Len(before) + 1
                 /\ after[at].slug = lastOp'.slug
                 /\ after[at].content = lastOp'.content
                 /\ \A k \in 1..Len(before) : k # at => after[k] = before[k]
          ]_vars

\* a create has just replaced the first of two records
C17_Witness ==
    /\ process = "browser"
    /\ lastOp.op = "saveClientArticle"
    /\ ~lastOp.threw
    /\ Len(CachedArticles) = 2
    /\ CachedArticles[1].slug = lastOp.slug
    /\ CachedArticles[1].createdAt > CachedArticles[2].updatedAt

\* ---------------------------------------------------------------------- C19
\* C19: right after a create on the local cache has returned a slug,
\* getBySlug of that slug returns a record whose content is the content
\* passed to the create, whatever the cache held before.
C19_CreateThenGet ==
    (process = "browser" /\ lastOp.op = "saveClientArticle" /\ ~lastOp.threw)
        => /\ getClientArticleBySlug(lastOp.result) # Null
           /\ getClientArticleBySlug(lastOp.result).content = lastOp.content

\* a create has just returned the empty slug on a cache of two records
C19_Witness ==
    /\ process = "browser"
    /\ lastOp.op = "saveClientArticle"
    /\ ~lastOp.threw
    /\ lastOp.result = ""
    /\ Len(CachedArticles) = 2
    /\ getClientArticleBySlug("").content = lastOp.content

\* ======================================================================
\* Saving from the generator (saveStepByStepArticle) and the edit page
\* with its editor (articles/[slug]/edit/page.tsx, ArticleEditor.tsx).
\* The remote persistence backend is an external collaborator: each of its
\* calls either rejects or resolves with one of the responses below.
\* ======================================================================

\* ------------------------------------------------- values of the backend
\* responses of articleAPI.saveArticle
SaveResponses ==
    {[success |-> TRUE, slug |-> "t"], [success |-> TRUE, slug |-> "r"],
     [success |-> FALSE, slug |-> ""]}

\* response of articleAPI.getArticleBySlug
RemoteArticle(slug) ==
    [title |-> "T", slug |-> slug, topic |-> "topic",
     keywords |-> <<"k1", "k2">>, tone |-> "casual", wordCount |-> 2,
     readabilityScore |-> 70, seoScore |-> NoNumber, createdAt |-> 1,
     updatedAt |-> 1, content |-> "c1", metaDescription |-> "meta"]

\* the form values read by watch(), the keywords already split and trimmed
FormData == [topic |-> "topic", keywords |-> <<"k1", "k2">>,
             tone |-> "casual"]

\* ------------------------------------------------ saveStepByStepArticle
\* h2Contents.reduce((sum, h2) => sum + h2.wordCount, 0)
RECURSIVE SumWordCount(_)
SumWordCount(sections) ==
    IF sections = << >> THEN 0
    ELSE Head(sections).wordCount + SumWordCount(Tail(sections))

\* a request whose wordCount is the word count of the last section only
SaveRequestOfLastSection ==
    [title |-> headingsResponse.seo_content.h1_heading,
     content |-> completeArticle,
     topic |-> FormData.topic,
     keywords |-> FormData.keywords,
     tone |-> FormData.tone,
     wordCount |-> IF h2Contents = << >> THEN 0
                   ELSE h2Contents[Len(h2Contents)].wordCount,
     readabilityScore |-> 70,
     metaDescription |-> headingsResponse.seo_content.meta_description]

\* lines 401-410
SaveRequest ==
    [title |-> headingsResponse.seo_content.h1_heading,
     content |-> completeArticle,
     topic |-> FormData.topic,
     keywords |-> FormData.keywords,
     tone |-> FormData.tone,
     wordCount |-> SumWordCount(h2Contents),
     readabilityScore |-> 70,
     metaDescription |-> headingsResponse.seo_content.meta_description]

\* lines 422-429: the metadata argument of the fallback
SaveMetadata(request) ==
    [topic |-> request.topic, keywords |-> request.keywords,
     tone |-> request.tone, wordCount |-> request.wordCount,
     readabilityScore |-> request.readabilityScore, seoScore |-> NoNumber,
     createdAt |-> NoNumber, metaDescription |-> request.metaDescription]

\* the content panel with its "Save & Edit" button (lines 984-997)
SaveButtonEnabled ==
    /\ route.page = "generator"
    /\ headingsResponse # Null
    /\ generationStep = "content"
    /\ ~saving

\* lines 388-412: a click on "Save & Edit", up to the await
saveStepByStepArticle ==
    /\ SaveButtonEnabled
    /\ IF completeArticle = "" \/ headingsResponse = Null
       THEN /\ lastEvent' = Event("saveStepByStepArticle", "ignored", 0)
            /\ UNCHANGED <<saving, error, saveCall>>
       ELSE /\ saving' = TRUE
            /\ error' = "null"
            /\ saveCall' = [pc |-> "awaiting", request |-> SaveRequest]
            /\ lastEvent' = Event("saveStepByStepArticle", "requested", 0)
    /\ UNCHANGED <<generationStep, headingsResponse, h2Contents,
                   isGeneratingHeadings, isGeneratingAll, isGeneratingAllRef,
                   generationInProgressRef, headingsCall, sectionCall,
                   bulkCall, pendingRequests, bulkHistory>>
    /\ UNCHANGED <<persistenceVars, route, editPage, requests, editor>>

\* router.push(`/articles/${slug}/edit`): the generator is unmounted and its
\* state discarded; the edit page is mounted and its effect of line 21
\* calls loadArticle, which runs up to its await
OpenEditPage(slug) ==
    /\ route' = [page |-> "edit", slug |-> slug]
    /\ editPage' = EditPageInit
    /\ requests' = IF slug # "" THEN << [op |-> "get", fromSave |-> FALSE] >>
                   ELSE << >>
    /\ editor' = Null
    /\ generationStep' = "setup"
    /\ headingsResponse' = Null
    /\ h2Contents' = << >>
    /\ error' = "null"
    /\ saving' = FALSE
    /\ saveCall' = IdleSave

\* lines 413-417 and 440-442: the backend answers
saveStepByStepArticleResolved ==
    /\ saveCall.pc = "awaiting"
    /\ \E response \in SaveResponses :
          IF response.success
          THEN /\ OpenEditPage(response.slug)
               /\ lastEvent' =
                     Event("saveStepByStepArticle", "succeeded", 0)
          ELSE /\ saving' = FALSE
               /\ saveCall' = IdleSave
               /\ lastEvent' =
                     Event("saveStepByStepArticle", "unsuccessful", 0)
               /\ UNCHANGED <<generationStep, headingsResponse, h2Contents,
                              error, route, editPage, requests, editor>>
    /\ UNCHANGED <<isGeneratingHeadings, isGeneratingAll, isGeneratingAllRef,
                   generationInProgressRef, headingsCall, sectionCall,
                   bulkCall, pendingRequests, bulkHistory>>
    /\ UNCHANGED persistenceVars

\* the backend call fails and the failure is shown, without the fallback
saveStepByStepArticleRejectedNoFallback ==
    /\ saveCall.pc = "awaiting"
    /\ \E err \in ApiErrors :
          error' = ErrorMessageOf(err, "Failed to save article")
    /\ saving' = FALSE
    /\ saveCall' = IdleSave
    /\ lastEvent' = Event("saveStepByStepArticle", "failed", 0)
    /\ UNCHANGED <<generationStep, headingsResponse, h2Contents, route,
                   editPage, requests, editor>>
    /\ UNCHANGED <<isGeneratingHeadings, isGeneratingAll, isGeneratingAllRef,
                   generationInProgressRef, headingsCall, sectionCall,
                   bulkCall, pendingRequests, bulkHistory>>
    /\ UNCHANGED persistenceVars

\* lines 418-442: the backend call fails; the article goes to the local
\* cache, and only a failure of that is shown
saveStepByStepArticleRejected ==
    /\ saveCall.pc = "awaiting"
    /\ \E setItemThrows \in BOOLEAN :
          /\ saveClientArticle(saveCall.request.title,
                               saveCall.request.content,
                               SaveMetadata(saveCall.request), setItemThrows)
          /\ IF setItemThrows
             THEN /\ error' = "QuotaExceededError"
                  /\ saving' = FALSE
                  /\ saveCall' = IdleSave
                  /\ lastEvent' =
                        Event("saveStepByStepArticle", "failed", 0)
                  /\ UNCHANGED <<generationStep, headingsResponse,
                                 h2Contents, route, editPage, requests,
                                 editor>>
             ELSE /\ OpenEditPage(createSlug(saveCall.request.title))
                  /\ lastEvent' =
                        Event("saveStepByStepArticle", "fellBack", 0)
    /\ UNCHANGED <<isGeneratingHeadings, isGeneratingAll, isGeneratingAllRef,
                   generationInProgressRef, headingsCall, sectionCall,
                   bulkCall, pendingRequests, bulkHistory>>
    /\ UNCHANGED <<files, now, process>>

\* -------------------------------------------------------- ArticleEditor
\* the three edited fields of an editor state or of an article
FieldsOf(r) == [title |-> r.title, content |-> r.content,
                metaDescription |-> r.metaDescription]

\* lines 33-34: the comparison of the hasChanges effect
Changed(fields, article) ==
    \/ fields.title # article.title
    \/ fields.content # article.content
    \/ fields.metaDescription # article.metaDescription

\* lines 16-26, and the first run of the effects of lines 32, 122:
\* `captured` holds the title, content and metaDescription seen by the
\* handleSave that the keydown listener of line 122 closes over
\* Lines 19-24 are the state of the paraphrase feature; selectionStart and
\* selectionEnd are those of the textarea of line 237.  Two fields are
\* history: `requested` is the text and the span selected when the last
\* paraphrase request was issued, `applied` counts the options applied.
NothingRequested == [text |-> "", start |-> 0, end |-> 0]
MountedEditor(article) ==
    [title |-> article.title, content |-> article.content,
     metaDescription |-> article.metaDescription, hasChanges |-> FALSE,
     captured |-> FieldsOf(article),
     selectedText |-> "", showContextMenu |-> FALSE,
     showParaphraseModal |-> FALSE, paraphraseOptions |-> << >>,
     paraphrasing |-> FALSE, selectionStart |-> 0, selectionEnd |-> 0,
     requested |-> NothingRequested, applied |-> 0]

\* a render after an edit that tracks hasChanges incrementally: once set,
\* the flag stays
AfterEditSticky(edited, article) ==
    LET changed == edited.hasChanges
                   \/ Changed(FieldsOf(edited), article)
    IN  [edited EXCEPT
            !.hasChanges = changed,
            !.captured = IF changed # edited.hasChanges
                         THEN FieldsOf(edited) ELSE @]

\* a render after one of the fields was set: the effect of line 32 updates
\* hasChanges, and the effect of line 122 (dependencies hasChanges, saving)
\* installs a new listener only when hasChanges changed
AfterEdit(edited, article) ==
    LET changed == Changed(FieldsOf(edited), article)
    IN  [edited EXCEPT
            !.hasChanges = changed,
            !.captured = IF changed # edited.hasChanges
                         THEN FieldsOf(edited) ELSE @]

\* lines 114-118: the updates handleSave passes to onSave
EditorUpdates(fields, article) ==
    [title |-> IF fields.title # article.title
               THEN fields.title ELSE Undefined,
     content |-> IF fields.content # article.content
                 THEN fields.content ELSE Undefined,
     metaDescription |->
         IF fields.metaDescription # article.metaDescription
         THEN fields.metaDescription ELSE Undefined]

\* page.tsx lines 83-119 and 164: the editor is rendered
EditorShown ==
    /\ route.page = "edit"
    /\ ~editPage.loading
    /\ editPage.error = "null"
    /\ editPage.article # Null

\* the page as rendered after a load: the editor is mounted anew, or the
\* error screen replaces it
RenderedEditor(page) ==
    IF ~page.loading /\ page.error = "null" /\ page.article # Null
    THEN MountedEditor(page.article)
    ELSE Null

\* what the user types into the three inputs
TypedTitles == {"t!"}
TypedContents == {"c2"}
TypedMetaDescriptions == {"meta2"}

EditFrame ==
    /\ UNCHANGED <<generatorState, persistenceVars, route, saving, saveCall,
                   editPage, requests>>

setTitle ==
    /\ EditorShown
    /\ \E value \in TypedTitles \cup {editPage.article.title} :
          editor' = AfterEdit([editor EXCEPT !.title = value],
                              editPage.article)
    /\ lastEvent' = Event("setTitle", "typed", 0)
    /\ EditFrame

setContent ==
    /\ EditorShown
    /\ \E value \in TypedContents \cup {editPage.article.content} :
          editor' = AfterEdit([editor EXCEPT !.content = value],
                              editPage.article)
    /\ lastEvent' = Event("setContent", "typed", 0)
    /\ EditFrame

setMetaDescription ==
    /\ EditorShown
    /\ \E value \in
            TypedMetaDescriptions \cup {editPage.article.metaDescription} :
          editor' = AfterEdit([editor EXCEPT !.metaDescription = value],
                              editPage.article)
    /\ lastEvent' = Event("setMetaDescription", "typed", 0)
    /\ EditFrame

\* ------------------------------------------------------ ArticleEditPage
UpdateRequests == SelectSeq(requests, LAMBDA r : r.op = "update")

RemoveAt(seq, i) == SubSeq(seq, 1, i - 1) \o SubSeq(seq, i + 1, Len(seq))

\* page.tsx lines 52-61: handleSave of the page up to its await; the
\* render with the new saving flag installs a new keydown listener
PageHandleSave(updates) ==
    IF editPage.article = Null
    THEN UNCHANGED <<editPage, requests, editor>>
    ELSE /\ editPage' = [editPage EXCEPT !.saving = TRUE, !.error = "null"]
         /\ requests' = Append(requests,
                               [op |-> "update", updates |-> updates])
         /\ editor' = [editor EXCEPT !.captured = FieldsOf(editor)]

SaveFrame ==
    /\ UNCHANGED <<generatorState, persistenceVars, route, saving, saveCall>>

\* ArticleEditor lines 187-193: a click on the enabled Save button
SaveControl ==
    /\ EditorShown
    /\ editor.hasChanges /\ ~editPage.saving
    /\ PageHandleSave(EditorUpdates(FieldsOf(editor), editPage.article))
    /\ lastEvent' = Event("SaveControl", "requested", 0)
    /\ SaveFrame

\* the shortcut without the test of line 127
SaveShortcutUnguarded ==
    /\ EditorShown
    /\ PageHandleSave(EditorUpdates(editor.captured, editPage.article))
    /\ lastEvent' = Event("SaveShortcut", "requested", 0)
    /\ SaveFrame

\* ArticleEditor lines 123-130: Ctrl/Cmd+S while the editor is mounted
SaveShortcut ==
    /\ EditorShown
    /\ IF editor.hasChanges /\ ~editPage.saving
       THEN /\ PageHandleSave(EditorUpdates(editor.captured,
                                            editPage.article))
            /\ lastEvent' = Event("SaveShortcut", "requested", 0)
       ELSE /\ lastEvent' = Event("SaveShortcut", "ignored", 0)
            /\ UNCHANGED <<editPage, requests, editor>>
    /\ SaveFrame

\* page.tsx lines 27-34: loadArticle up to its await; the loading screen
\* replaces the editor
StartLoad(page, pending, fromSave) ==
    /\ editPage' = [page EXCEPT !.loading = TRUE, !.error = "null"]
    /\ requests' = Append(pending, [op |-> "get", fromSave |-> fromSave])
    /\ editor' = Null

PageFrame ==
    /\ UNCHANGED <<generatorState, route, saving, saveCall, files, now,
                   process>>

\* page.tsx lines 61 and 71: the backend has updated the article
handleSaveResolved ==
    /\ route.page = "edit"
    /\ \E i \in 1..Len(requests) :
          /\ requests[i].op = "update"
          /\ StartLoad(editPage, RemoveAt(requests, i), TRUE)
    /\ lastEvent' = Event("handleSave", "updated", 0)
    /\ UNCHANGED <<localStorage, lastOp>>
    /\ PageFrame

\* page.tsx lines 62-81: the backend fails to update; the update goes to
\* the local cache, and only a failure of that is shown
handleSaveRejected ==
    /\ route.page = "edit"
    /\ \E i \in 1..Len(requests), setItemThrows \in BOOLEAN :
          /\ requests[i].op = "update"
          /\ updateClientArticle(route.slug, requests[i].updates,
                                 setItemThrows)
          /\ IF lastOp'.result
             THEN /\ StartLoad(editPage, RemoveAt(requests, i), TRUE)
                  /\ lastEvent' = Event("handleSave", "fellBack", 0)
             ELSE /\ editPage' = [editPage EXCEPT
                                      !.error = "Failed to update article",
                                      !.saving = FALSE]
                  /\ requests' = RemoveAt(requests, i)
                  /\ editor' = Null
                  /\ lastEvent' = Event("handleSave", "failed", 0)
    /\ PageFrame

\* page.tsx lines 72-80: handleSave after the load it awaited
AfterLoad(page, fromSave) ==
    [page EXCEPT !.loading = FALSE,
                 !.saving = IF fromSave THEN FALSE ELSE @]

\* page.tsx lines 34-35 and 47-49: the backend returns the article
loadArticleResolved ==
    /\ route.page = "edit"
    /\ \E i \in 1..Len(requests) :
          /\ requests[i].op = "get"
          /\ LET page == AfterLoad([editPage EXCEPT
                                       !.article = RemoteArticle(route.slug)],
                                   requests[i].fromSave)
             IN  /\ editPage' = page
                 /\ editor' = RenderedEditor(page)
          /\ requests' = RemoveAt(requests, i)
    /\ lastEvent' = Event("loadArticle", "succeeded", 0)
    /\ UNCHANGED <<localStorage, lastOp>>
    /\ PageFrame

\* page.tsx lines 36-49: the backend fails; the article is read from the
\* local cache, and only its absence there is shown
loadArticleRejected ==
    /\ route.page = "edit"
    /\ \E i \in 1..Len(requests) :
          /\ requests[i].op = "get"
          /\ LET clientArticle == getClientArticleBySlug(route.slug)
                 page == AfterLoad(
                     IF clientArticle # Null
                     THEN [editPage EXCEPT !.article = clientArticle]
                     ELSE [editPage EXCEPT !.error = "Article not found"],
                     requests[i].fromSave)
             IN  /\ editPage' = page
                 /\ editor' = RenderedEditor(page)
                 /\ lastEvent' =
                       Event("loadArticle",
                             IF clientArticle # Null THEN "fellBack"
                             ELSE "failed", 0)
          /\ requests' = RemoveAt(requests, i)
    /\ UNCHANGED <<localStorage, lastOp>>
    /\ PageFrame

\* ------------------------------------------------- the pages under use
\* A session of the content step: headings are present and every section
\* is pending or generated, with no request in flight.  The contents are
\* those of H2ContentResponses and one more that the API may as well
\* return: Markdown that carries a heading line of its own.
MarkdownContentResponse == [generated_content |-> "## s", word_count |-> 1]

SectionOutcomes(heading) ==
    {InitialH2Content(heading)}
    \cup {StoreResponse(InitialH2Content(heading), response) :
             response \in H2ContentResponses \cup {MarkdownContentResponse}}

SessionsOf(response) ==
    LET headings == response.seo_content.h2_headings
    IN  {sections \in [1..Len(headings) ->
                          UNION {SectionOutcomes(headings[k]) :
                                    k \in 1..Len(headings)}] :
            \A k \in 1..Len(headings) : sections[k].heading = headings[k]}

InitPages ==
    /\ \E response \in HeadingsResponses :
          /\ headingsResponse = response
          /\ h2Contents \in SessionsOf(response)
    /\ generationStep = "content"
    /\ error = "null"
    /\ isGeneratingHeadings = FALSE
    /\ isGeneratingAll = FALSE
    /\ isGeneratingAllRef = FALSE
    /\ generationInProgressRef = FALSE
    /\ headingsCall = "idle"
    /\ sectionCall = IdleSection
    /\ bulkCall = IdleBulk
    /\ pendingRequests = {}
    /\ bulkHistory = NoBulkHistory
    /\ lastEvent = Event("none", "none", 0)
    /\ PersistenceInit
    /\ PageInit

NextPages ==
    \/ saveStepByStepArticle
    \/ saveStepByStepArticleResolved
    \/ saveStepByStepArticleRejected
    \/ loadArticleResolved
    \/ loadArticleRejected
    \/ setTitle
    \/ setContent
    \/ setMetaDescription
    \/ SaveControl
    \/ SaveShortcut
    \/ handleSaveResolved
    \/ handleSaveRejected

\* a user who, on the content step, saves the article and goes on in the
\* edit page
SpecPages == InitPages /\ [][NextPages]_vars

\* ---------------------------------------------------------------------- C11
\* the number of lines of a text that start with "#"
HeadingLineCount(text) ==
    Cardinality({k \in 1..Len(text) :
                    /\ SubSeq(text, k, k) = "#"
                    /\ k = 1 \/ SubSeq(text, k - 1, k - 1) = "\n"})

\* the sum of wordCount over the sections with the indices S
RECURSIVE WordCountOver(_, _)
WordCountOver(sections, S) ==
    IF S = {} THEN 0
    ELSE LET k == CHOOSE k \in S : TRUE
         IN  sections[k].wordCount + WordCountOver(sections, S \ {k})

GeneratedIndices(sections) ==
    {k \in 1..Len(sections) : sections[k].isGenerated}

\* this step is a click on "Save & Edit" that submits a request
SaveSubmitted ==
    /\ saveCall.pc = "idle"
    /\ saveCall'.pc = "awaiting"

\* the request carries the H1 as title, the assembled article as content,
\* the word counts of the generated sections summed up, and the meta
\* description of the headings
SubmitsTheSession(request) ==
    /\ request.title = headingsResponse.seo_content.h1_heading
    /\ request.content = completeArticle
    /\ request.wordCount =
           WordCountOver(h2Contents, GeneratedIndices(h2Contents))
    /\ request.metaDescription =
           headingsResponse.seo_content.meta_description

\* C11 as stated: save() submits title, content, summed wordCount and
\* metaDescription of the session, and for a session whose N sections are
\* all generated the submitted content has exactly N+1 heading lines.
C11_SaveSubmitsSession ==
    [][SaveSubmitted =>
          /\ SubmitsTheSession(saveCall'.request)
          /\ AllGenerated(h2Contents) =>
                HeadingLineCount(saveCall'.request.content)
                    = Len(h2Contents) + 1]_vars

\* no section holds content with a heading line of its own
PlainContents(sections) ==
    \A k \in 1..Len(sections) : HeadingLineCount(sections[k].content) = 0

\* C11 amended: save() submits title, content, summed wordCount and
\* metaDescription of the session, and when no section content carries a
\* heading line of its own the submitted content has one heading line for
\* the H1 and one for each section that is generated with non-empty
\* content: N+1 when all N sections are.
C11_SaveSubmitsNonEmptySections ==
    [][SaveSubmitted =>
          /\ SubmitsTheSession(saveCall'.request)
          /\ PlainContents(h2Contents) =>
                HeadingLineCount(saveCall'.request.content)
                   = 1 + Cardinality({k \in GeneratedIndices(h2Contents) :
                                         h2Contents[k].content # ""})]_vars

\* a session of two sections, both generated with content, is being saved
C11_Witness ==
    /\ saveCall.pc = "awaiting"
    /\ Len(h2Contents) = 2
    /\ \A k \in 1..2 : h2Contents[k].isGenerated /\ h2Contents[k].content # ""
    /\ PlainContents(h2Contents)
    /\ SumWordCount(h2Contents) = 4
    /\ HeadingLineCount(saveCall.request.content) = 3

\* ---------------------------------------------------------------------- C18
\* this step is the handling of a failed backend call of the operation op
RemoteFailed(op) ==
    /\ lastEvent'.op = op
    /\ lastEvent'.kind \in {"fellBack", "failed"}
    /\ lastEvent' # lastEvent \/ requests' # requests \/ saveCall' # saveCall

\* C18: when the backend call of create, get or update fails, the
\* operation is carried out on the local cache and no error is shown if it
\* succeeds there; an error message appears only in a step in which the
\* backend call failed and the local cache failed as well.
C18_FallbackHidesRemoteFailure ==
    /\ [][RemoteFailed("saveStepByStepArticle") =>
             LET request == saveCall.request
             IN  /\ lastOp'.op = "saveClientArticle"
                 /\ lastOp'.content = request.content
                 /\ lastOp'.slug = createSlug(request.title)
                 /\ IF lastOp'.threw
                    THEN error' # "null" /\ route'.page = "generator"
                    ELSE /\ error' = "null"
                         /\ route' = [page |-> "edit",
                                      slug |-> lastOp'.result]
                         /\ SlugIn(CachedArticles', lastOp'.result)]_vars
    /\ [][RemoteFailed("loadArticle") =>
             LET clientArticle == getClientArticleBySlug(route.slug)
             IN  IF clientArticle # Null
                 THEN /\ editPage'.article = clientArticle
                      /\ editPage'.error = "null"
                 ELSE editPage'.error # "null"]_vars
    /\ [][RemoteFailed("handleSave") =>
             /\ lastOp'.op = "updateClientArticle"
             /\ lastOp'.slug = route.slug
             /\ \E i \in 1..Len(requests) :
                   /\ requests[i].op = "update"
                   /\ lastOp'.updates = requests[i].updates
             /\ IF lastOp'.result
                THEN editPage'.error = "null" /\ Cached(route.slug)
                ELSE editPage'.error # "null"]_vars
    /\ [][(error' # "null" /\ error' # error) =>
             (RemoteFailed("saveStepByStepArticle") /\ lastOp'.threw)]_vars
    /\ [][(editPage'.error # "null" /\ editPage'.error # editPage.error) =>
             \/ /\ RemoteFailed("loadArticle")
                /\ getClientArticleBySlug(route.slug) = Null
             \/ /\ RemoteFailed("handleSave")
                /\ lastOp'.result = FALSE]_vars

\* an update has just been carried out on the local cache after the backend
\* failed, and no error is shown
C18_Witness ==
    /\ lastEvent = Event("handleSave", "fellBack", 0)
    /\ lastOp.op = "updateClientArticle"
    /\ lastOp.result = TRUE
    /\ editPage.error = "null"
    /\ editPage.saving

\* ---------------------------------------------------------------------- C20
\* C20: at most one update request of the editor is in flight at any time,
\* and a step that issues one, through the Save button or through
\* Ctrl/Cmd+S, starts with hasChanges true and with no save under way.
C20_GuardedSave ==
    /\ [](Len(UpdateRequests) <= 1)
    /\ [][Len(UpdateRequests') > Len(UpdateRequests) =>
             /\ editor.hasChanges
             /\ ~editPage.saving
             /\ UpdateRequests = << >>
             /\ lastEvent'.op \in {"SaveControl", "SaveShortcut"}]_vars

\* Ctrl/Cmd+S was pressed on unsaved changes while an update request was in
\* flight, and nothing was issued
C20_Witness ==
    /\ lastEvent = Event("SaveShortcut", "ignored", 0)
    /\ editor # Null
    /\ editor.hasChanges
    /\ editPage.saving
    /\ Len(UpdateRequests) = 1

\* ---------------------------------------------------------------------- C21
\* this step is a save through Ctrl/Cmd+S that issues an update request
ShortcutSubmitted ==
    /\ lastEvent' = Event("SaveShortcut", "requested", 0)
    /\ Len(requests') = Len(requests) + 1

\* C21: a save through the keyboard shortcut submits what a save through
\* the Save control would submit in the same state: for each of title,
\* content and metaDescription the working value if it differs from the
\* loaded original, and undefined otherwise.
C21_ShortcutSubmitsWorkingValues ==
    [][ShortcutSubmitted =>
          requests'[Len(requests')] =
              [op |-> "update",
               updates |-> EditorUpdates(FieldsOf(editor),
                                         editPage.article)]]_vars

\* ---------------------------------------------------------------------- C22
\* this step is an edit of one of the three fields
Edited == lastEvent'.kind = "typed" /\ editor' # editor

\* C22: while the editor is shown, hasChanges is true exactly when the
\* working title, content or metaDescription differs from the loaded
\* article; an edit that brings the three fields back to their loaded values
\* turns hasChanges from true to false.
C22_HasChangesIsComparison ==
    /\ [](EditorShown =>
             editor.hasChanges = Changed(FieldsOf(editor), editPage.article))
    /\ [][(/\ Edited
           /\ editor.hasChanges
           /\ FieldsOf(editor') = FieldsOf(editPage.article))
          => ~editor'.hasChanges]_vars

\* two fields were edited, and the second one has just been typed back to
\* its loaded value while the first still differs
C22_Witness ==
    /\ EditorShown
    /\ lastEvent = Event("setContent", "typed", 0)
    /\ editor.content = editPage.article.content
    /\ editor.title # editPage.article.title
    /\ editor.captured.title = editor.title
    /\ editor.hasChanges

\* ======================================================================
\* Paraphrasing a selection in the editor (ArticleEditor.tsx lines 38-110).
\* The editor stays in edit mode, so the textarea of line 237 is mounted;
\* window.getSelection() yields the text selected in it.  The paraphrase
\* service is an external collaborator: its call rejects or resolves with
\* one of the responses below.
\* ======================================================================

\* --------------------------------------------------------------- bounds
MaxEditLen == 4                 \* longest content the editor holds
MaxApplied == 1                 \* paraphrase options applied in one visit

\* ------------------------------------------------------- values of use
\* the article the editor was opened on
EditorArticle == [RemoteArticle("t") EXCEPT !.content = "a b"]

\* response.paraphrased_variations
ParaphraseResponses == {<< >>, <<"yz", "y">>}

\* String.prototype.trim
RECURSIVE Trim(_)
Trim(str) ==
    IF str = "" THEN ""
    ELSE IF SubSeq(str, 1, 1) \in Whitespace
    THEN Trim(SubSeq(str, 2, Len(str)))
    ELSE IF SubSeq(str, Len(str), Len(str)) \in Whitespace
    THEN Trim(SubSeq(str, 1, Len(str) - 1))
    ELSE str

\* String.prototype.substring(start, end), offsets counted from 0
Substring(str, start, end) == SubSeq(str, start + 1, end)

\* lines 96-100: the span [start, end) of content replaced by a text
ReplaceSpan(content, start, end, text) ==
    Substring(content, 0, start) \o text
        \o Substring(content, end, Len(content))

\* the overlay of line 301 covers the page while the modal is open
TextareaReachable ==
    /\ EditorShown
    /\ ~editor.showParaphraseModal

ParaphraseFrame ==
    /\ UNCHANGED <<generatorState, persistenceVars, route, saving, saveCall,
                   editPage>>

\* ------------------------------------------------- handleTextSelection
\* lines 38-43 and 145-147: the user selects [start, end) in the textarea
\* with the mouse, or clicks into it (start = end); the click closes an open
\* context menu
handleTextSelection ==
    /\ TextareaReachable
    /\ \E start \in 0..Len(editor.content), end \in 0..Len(editor.content) :
          /\ start <= end
          /\ LET selection == Substring(editor.content, start, end)
             IN  editor' = [editor EXCEPT
                     !.selectionStart = start,
                     !.selectionEnd = end,
                     !.showContextMenu = FALSE,
                     !.selectedText = IF Len(Trim(selection)) > 0
                                      THEN Trim(selection) ELSE @]
          /\ lastEvent' = Event("handleTextSelection",
                                IF start < end THEN "selected"
                                ELSE "deselected", 0)
    /\ UNCHANGED requests
    /\ ParaphraseFrame

\* --------------------------------------------------- handleContextMenu
\* lines 46-52: a right-click on the textarea
handleContextMenu ==
    /\ TextareaReachable
    /\ IF Len(Trim(editor.selectedText)) > 0
       THEN /\ editor' = [editor EXCEPT !.showContextMenu = TRUE]
            /\ lastEvent' = Event("handleContextMenu", "shown", 0)
       ELSE /\ editor' = editor
            /\ lastEvent' = Event("handleContextMenu", "ignored", 0)
    /\ UNCHANGED requests
    /\ ParaphraseFrame

\* lines 55-57, 145-147 and 291: Cancel, or a click outside the menu
closeContextMenu ==
    /\ EditorShown
    /\ editor.showContextMenu
    /\ editor' = [editor EXCEPT !.showContextMenu = FALSE]
    /\ lastEvent' = Event("closeContextMenu", "closed", 0)
    /\ UNCHANGED requests
    /\ ParaphraseFrame

\* ----------------------------------------------------- handleParaphrase
\* lines 73-79: the request of handleParaphrase
ParaphraseRequest(ed) == [op |-> "paraphrase", text |-> ed.selectedText]

\* lines 66-73 and 282-284: a click on "Paraphrase Selected Text", up to
\* the await
handleParaphrase ==
    /\ EditorShown
    /\ editor.showContextMenu /\ ~editor.paraphrasing
    /\ IF Trim(editor.selectedText) = ""
       THEN /\ editor' = [editor EXCEPT !.showContextMenu = FALSE]
            /\ lastEvent' = Event("handleParaphrase", "rejected", 0)
            /\ UNCHANGED requests
       ELSE /\ editor' = [editor EXCEPT
                             !.paraphrasing = TRUE,
                             !.showContextMenu = FALSE,
                             !.requested =
                                 [text |-> editor.selectedText,
                                  start |-> editor.selectionStart,
                                  end |-> editor.selectionEnd]]
            /\ requests' = Append(requests, ParaphraseRequest(editor))
            /\ lastEvent' = Event("handleParaphrase", "requested", 0)
    /\ ParaphraseFrame

\* lines 81-82 and 86-88: the service answers
handleParaphraseResolved ==
    /\ EditorShown
    /\ \E i \in 1..Len(requests), options \in ParaphraseResponses :
          /\ requests[i].op = "paraphrase"
          /\ requests' = RemoveAt(requests, i)
          /\ editor' = [editor EXCEPT !.paraphraseOptions = options,
                                      !.showParaphraseModal = TRUE,
                                      !.paraphrasing = FALSE]
    /\ lastEvent' = Event("handleParaphrase", "succeeded", 0)
    /\ ParaphraseFrame

\* lines 83-88: the call fails; an alert is shown
handleParaphraseRejected ==
    /\ EditorShown
    /\ \E i \in 1..Len(requests) :
          /\ requests[i].op = "paraphrase"
          /\ requests' = RemoveAt(requests, i)
    /\ editor' = [editor EXCEPT !.paraphrasing = FALSE]
    /\ lastEvent' = Event("handleParaphrase", "failed", 0)
    /\ ParaphraseFrame

\* ------------------------------------------------------ applyParaphrase
\* lines 92-110 and 329: a click on one of the options; the content is set,
\* the effects of lines 32 and 122 run, the cursor is placed by the timer
\* of line 104, and the modal is closed
applyParaphrase ==
    /\ EditorShown
    /\ editor.showParaphraseModal
    /\ editor.applied < MaxApplied
    /\ \E k \in 1..Len(editor.paraphraseOptions) :
          LET paraphrasedText == editor.paraphraseOptions[k]
              start == editor.selectionStart
              end == editor.selectionEnd
              newContent == ReplaceSpan(editor.content, start, end,
                                        paraphrasedText)
          IN  /\ Len(newContent) <= MaxEditLen
              /\ editor' =
                    AfterEdit([editor EXCEPT
                                  !.content = newContent,
                                  !.selectionStart =
                                      start + Len(paraphrasedText),
                                  !.selectionEnd =
                                      start + Len(paraphrasedText),
                                  !.showParaphraseModal = FALSE,
                                  !.paraphraseOptions = << >>,
                                  !.applied = @ + 1],
                              editPage.article)
    /\ lastEvent' = Event("applyParaphrase", "applied", 0)
    /\ UNCHANGED requests
    /\ ParaphraseFrame

\* lines 60-63, 309 and 338: the modal is dismissed
closeParaphraseModal ==
    /\ EditorShown
    /\ editor.showParaphraseModal
    /\ editor' = [editor EXCEPT !.showParaphraseModal = FALSE,
                                !.paraphraseOptions = << >>]
    /\ lastEvent' = Event("closeParaphraseModal", "closed", 0)
    /\ UNCHANGED requests
    /\ ParaphraseFrame

\* ------------------------------------------------- the editor under use
\* the edit page has loaded EditorArticle and shows the editor
InitEditor ==
    /\ GeneratorInit
    /\ PersistenceInit
    /\ route = [page |-> "edit", slug |-> EditorArticle.slug]
    /\ saving = FALSE
    /\ saveCall = IdleSave
    /\ editPage = [article |-> EditorArticle, loading |-> FALSE,
                   error |-> "null", saving |-> FALSE]
    /\ requests = << >>
    /\ editor = MountedEditor(EditorArticle)

NextEditor ==
    \/ handleTextSelection
    \/ handleContextMenu
    \/ closeContextMenu
    \/ handleParaphrase
    \/ handleParaphraseResolved
    \/ handleParaphraseRejected
    \/ applyParaphrase
    \/ closeParaphraseModal

\* a user who selects text in the editor and has it paraphrased
SpecEditor == InitEditor /\ [][NextEditor]_vars

\* ------------------------------------------------ vocabulary of paraphrase
\* this step applies a paraphrase option to the content
ParaphraseApplied ==
    /\ lastEvent' = Event("applyParaphrase", "applied", 0)
    /\ editor'.applied = editor.applied + 1

\* this step stores the result of the pending paraphrase request
ParaphraseArrived ==
    /\ lastEvent' = Event("handleParaphrase", "succeeded", 0)
    /\ Len(requests') < Len(requests)

\* this step is a click on "Paraphrase Selected Text"
ParaphraseInvoked ==
    /\ lastEvent'.op = "handleParaphrase"
    /\ lastEvent'.kind \in {"requested", "rejected"}
    /\ editor.showContextMenu /\ ~editor'.showContextMenu

\* the text selected in the textarea
CurrentSelection ==
    Substring(editor.content, editor.selectionStart, editor.selectionEnd)

\* the textarea holds a selection other than the one of the last request
NewerSelection ==
    /\ editor.selectionStart < editor.selectionEnd
    /\ <<editor.selectionStart, editor.selectionEnd>>
           # <<editor.requested.start, editor.requested.end>>

\* ---------------------------------------------------------------------- C23
\* C23: when a paraphrase option is chosen, the new content is the old
\* content with the span that was selected when the paraphrase was requested
\* replaced by the option, and the cursor stands right after the inserted
\* text, whatever became of the textarea selection in between.
C23_AppliesToRequestedSpan ==
    [][ParaphraseApplied =>
          \E k \in 1..Len(editor.paraphraseOptions) :
             LET variation == editor.paraphraseOptions[k]
                 start == editor.requested.start
             IN  /\ editor'.content =
                        ReplaceSpan(editor.content, start,
                                    editor.requested.end, variation)
                 /\ editor'.selectionStart = start + Len(variation)
                 /\ editor'.selectionEnd = start + Len(variation)]_vars

\* ---------------------------------------------------------------------- C24
\* C24: when the user has made a new selection while a paraphrase request
\* was pending, the result of that request is not shown as options for the
\* new selection, and no option is applied to the span of the new selection.
C24_StaleResultDropped ==
    /\ [][(ParaphraseArrived /\ NewerSelection)
          => ~editor'.showParaphraseModal]_vars
    /\ [][(ParaphraseApplied /\ NewerSelection)
          => \A k \in 1..Len(editor.paraphraseOptions) :
                editor'.content #
                    ReplaceSpan(editor.content, editor.selectionStart,
                                editor.selectionEnd,
                                editor.paraphraseOptions[k])]_vars

\* ---------------------------------------------------------------------- C25
\* C25: a paraphrase invoked while the selection of the textarea is empty or
\* only whitespace is rejected and issues no request.
C25_EmptySelectionRejected ==
    [][(ParaphraseInvoked /\ Trim(CurrentSelection) = "")
       => /\ lastEvent'.kind = "rejected"
          /\ requests' = requests]_vars

\* ======================================================================
\* createSlug as a function of its input (clientStorage.ts lines 30-36; the
\* server's copy in articleUtils is the same text).
\* ======================================================================

\* --------------------------------------------------------------- bounds
MaxSlugLen == 3                 \* longest input drawn from SlugAlphabet
MaxSlugCalls == 2               \* createSlug applied to its own result

\* ------------------------------------------------------- values of use
\* one character of each class the three regular expressions tell apart
SlugAlphabet == {"A", "a", "1", " ", "-", "_", "!"}

\* titles worth a look of their own
SlugExamples == {"Hello, World!", "  ---Already-Slug---  ", "Tab\tand\nline"}

\* every string of at most MaxSlugLen characters of SlugAlphabet, and the
\* examples
SlugInputs ==
    LET RECURSIVE StringsOfLen(_)
        StringsOfLen(n) ==
            IF n = 0 THEN {""}
            ELSE {str \o c : str \in StringsOfLen(n - 1), c \in SlugAlphabet}
    IN  UNION {StringsOfLen(n) : n \in 0..MaxSlugLen} \cup SlugExamples

\* a title is given; createSlug has not been called yet
GivenTitle(title) ==
    [op |-> "given", given |-> title, title |-> title, result |-> title,
     calls |-> 0]

\* createSlug is called: first on the title given, then on its own result
createSlugCalled ==
    /\ lastOp.calls < MaxSlugCalls
    /\ lastOp' = [op |-> "createSlug", given |-> lastOp.given,
                  title |-> lastOp.result,
                  result |-> createSlug(lastOp.result),
                  calls |-> lastOp.calls + 1]
    /\ UNCHANGED <<generatorVars, pageVars, localStorage, files, now,
                   process>>

InitSlug ==
    /\ GeneratorInit
    /\ PageInit
    /\ localStorage = << >>
    /\ files = << >>
    /\ now = 1
    /\ process = "browser"
    /\ \E title \in SlugInputs : lastOp = GivenTitle(title)

NextSlug == createSlugCalled

\* createSlug applied to each of the inputs, and again to what it returned
SpecSlug == InitSlug /\ [][NextSlug]_vars

\* ---------------------------------------------------------------------- C26
\* C26: slugify is idempotent: createSlug applied to a result of createSlug
\* returns that result.
C26_SlugifyIdempotent ==
    [][(lastOp.op = "createSlug" /\ lastOp'.op = "createSlug")
       => /\ lastOp'.title = lastOp.result
          /\ lastOp'.result = lastOp.result]_vars

\* createSlug was applied a second time, to a result that differs from the
\* title given
C26_Witness ==
    /\ lastOp.op = "createSlug"
    /\ lastOp.calls = 2
    /\ lastOp.given = "  ---Already-Slug---  "
    /\ lastOp.title = "already-slug"
    /\ lastOp.result = "already-slug"

\* ---------------------------------------------------------------------- C27
\* The algorithm in words: the lowercased input is cut at every character
\* of `separators`, characters that are neither kept nor separators are
\* dropped, and the non-empty pieces are joined by single hyphens.
RECURSIVE PiecesOf(_, _, _)
PiecesOf(cs, kept, separators) ==
    IF cs = << >> THEN << "" >>
    ELSE LET rest == PiecesOf(Tail(cs), kept, separators)
         IN  IF Head(cs) \in separators THEN << "" >> \o rest
             ELSE IF Head(cs) \in kept
             THEN << Head(cs) \o Head(rest) >> \o Tail(rest)
             ELSE rest

SlugOfPieces(title, kept, separators) ==
    Join(SelectSeq(PiecesOf(ToLowerCase(CharsOf(title)), kept, separators),
                   LAMBDA piece : piece # ""),
         "-")

\* the algorithm as specified: everything but a-z, 0-9, whitespace and
\* hyphen is stripped, the underscore with it
SpecifiedSlug(title) ==
    SlugOfPieces(title, LowerCase \cup Digits, Whitespace \cup {"-"})

\* the algorithm with the underscore surviving the strip, as a separator
UnderscoreSeparatingSlug(title) ==
    SlugOfPieces(title, LowerCase \cup Digits, Whitespace \cup {"-", "_"})

\* the title holds no letter and no digit
SymbolOnly(title) ==
    \A k \in 1..Len(title) :
       SubSeq(title, k, k) \notin UpperCase \cup LowerCase \cup Digits

\* this state holds the result of createSlug for the title given
FirstCall == lastOp.op = "createSlug" /\ lastOp.calls = 1

SlugExamplesHold ==
    /\ lastOp.title = "Hello, World!" => lastOp.result = "hello-world"
    /\ lastOp.title = "  ---Already-Slug---  "
          => lastOp.result = "already-slug"
    /\ SymbolOnly(lastOp.title) => lastOp.result = ""

\* C27 as stated: createSlug returns the result of the specified algorithm
\* (strip everything but a-z, 0-9, whitespace and hyphen), the empty string
\* for empty or symbol-only input, and the two examples.
C27_SlugifyAsSpecified ==
    FirstCall =>
       /\ lastOp.result = SpecifiedSlug(lastOp.title)
       /\ SlugExamplesHold

\* C27 amended: as stated, except that the strip also keeps the underscore,
\* which the collapse then treats as a separator like whitespace and hyphen.
C27_SlugifyKeepsUnderscoreAsSeparator ==
    FirstCall =>
       /\ lastOp.result = UnderscoreSeparatingSlug(lastOp.title)
       /\ SlugExamplesHold

\* createSlug has returned "hello-world" for "Hello, World!"
C27_Witness ==
    /\ FirstCall
    /\ lastOp.title = "Hello, World!"
    /\ lastOp.result = "hello-world"

\* ---------------------------------------------------------------------- C28
\* C28: every section is in exactly one of the statuses pending, generating,
\* generated and failed: none is generating and generated at once, and an
\* error message is present only on a failed section.
C28_OneStatusPerSection ==
    \A k \in 1..Len(h2Contents) :
       LET h2 == h2Contents[k]
       IN  /\ ~(h2.isGenerating /\ IsGenerated(h2))
           /\ h2.error # Undefined => IsFailed(h2)

\* ---------------------------------------------------------------------- C29
\* this step stores the response to a section request into the sections
ResponseStored ==
    /\ lastEvent'.op \in {"generateH2Content", "generateAllH2Contents"}
    /\ lastEvent'.kind = "succeeded"
    /\ pendingRequests' # pendingRequests

\* C29: a response is stored only into a section of the headings its request
\* was issued for: the request names the heading the section has now and
\* carries the headings that are current now.
C29_ResponseMatchesHeading ==
    [][ResponseStored =>
          \A request \in pendingRequests \ pendingRequests' :
             LET i == lastEvent'.h2Index
             IN  i \in 1..Len(h2Contents) =>
                    /\ request.h2_heading = h2Contents[i].heading
                    /\ request.seo_content = headingsResponse.seo_content
                    /\ h2Contents'[i].heading = request.h2_heading]_vars

\* ---------------------------------------------------------------------- C30
\* this step is a click on the button of a failed section while no section
\* operation is running
RetryCalled ==
    /\ lastEvent'.op = "generateH2Content"
    /\ lastEvent'.kind \in {"requested", "rejected"}
    /\ ~Busy
    /\ lastEvent'.h2Index \in 1..Len(h2Contents)
    /\ IsFailed(h2Contents[lastEvent'.h2Index])

\* this step stores the response to the request of generateH2Content
SectionSucceeded ==
    /\ lastEvent'.op = "generateH2Content"
    /\ lastEvent'.kind = "succeeded"
    /\ sectionCall.pc = "awaiting"

\* C30: once generateH2Content or a bulk run has ended, by success or by
\* failure, the in-flight guards are released; generateH2Content on a failed
\* section is then accepted and issues a request for that section; and when
\* a request of generateH2Content succeeds, its section is generated with
\* the content of the response and carries no error message.
C30_FailedSectionRetryable ==
    /\ [](~Busy => /\ ~generationInProgressRef
                   /\ ~isGeneratingAllRef
                   /\ ~isGeneratingAll)
    /\ [][RetryCalled =>
             LET i == lastEvent'.h2Index
             IN  /\ lastEvent'.kind = "requested"
                 /\ \E request \in pendingRequests' \ pendingRequests :
                       /\ request.h2Index = i
                       /\ request.h2_heading = h2Contents[i].heading
                 /\ h2Contents'[i].isGenerating
                 /\ h2Contents'[i].error = Undefined]_vars
    /\ [][SectionSucceeded =>
             LET i == lastEvent'.h2Index
             IN  i \in 1..Len(h2Contents) =>
                    /\ IsGenerated(h2Contents'[i])
                    /\ ~h2Contents'[i].isGenerating
                    /\ h2Contents'[i].error = Undefined
                    /\ \E response \in H2ContentResponses :
                          /\ h2Contents'[i].content =
                                response.generated_content
                          /\ h2Contents'[i].wordCount =
                                response.word_count]_vars

\* a bulk run over two sections was aborted by the failure of the first,
\* and generateH2Content on that section has since succeeded
C30_Witness ==
    /\ lastEvent = Event("generateH2Content", "succeeded", 1)
    /\ ~Busy
    /\ bulkHistory.start = {1, 2}
    /\ bulkHistory.issued = << 1 >>
    /\ Len(h2Contents) = 2
    /\ IsPending(h2Contents[2])
    /\ IsGenerated(h2Contents[1])
    /\ h2Contents[1].content = "x y"
    /\ h2Contents[1].error = Undefined
    /\ ~generationInProgressRef
====
